---- MODULE Spec2Model ----
(***************************************************************************)
(* Sokoban rules engine: the cell model (defs.rs), the level and its       *)
(* validation (level.rs) and the play state with its move / undo / reset   *)
(* transitions (level_state.rs).                                           *)
(*                                                                         *)
(* A grid is a sequence of cells in row-major order; the cell the code     *)
(* indexes as area[i] is area[i+1] here.  Option<usize> is <<>> for None   *)
(* and <<v>> for Some(v).                                                  *)
(***************************************************************************)
EXTENDS Integers, Sequences, FiniteSets, TLC

\* ------------------------------------------------------------------ bounds

\* Longest move log the model lets make_move build (the Vec is unbounded).
MaxMoves == 3

\* Most boxes, and most targets, placed in a room when levels are enumerated.
MaxPacks == 2

\* Longest string, and largest width and height, handed to the parser.
MaxLen == 4

\* Largest level side and largest display side the level is drawn with.
MaxDim == 6

\* Most levels of a text level set.
MaxLevels == 3

\* ------------------------------------------------------------------ defs.rs

Empty == "Empty"
Wall == "Wall"
Pack == "Pack"
Player == "Player"
Target == "Target"
PackOnTarget == "PackOnTarget"
PlayerOnTarget == "PlayerOnTarget"

Field == {Empty, Wall, Pack, Player, Target, PackOnTarget, PlayerOnTarget}

\* What a cell holds after panic!("Invalid field"): the call never returns.
InvalidField == "Invalid field"

Left == "Left"
Right == "Right"
Up == "Up"
Down == "Down"
PushLeft == "PushLeft"
PushRight == "PushRight"
PushUp == "PushUp"
PushDown == "PushDown"
NoDirection == "NoDirection"

Direction == {Left, Right, Up, Down, PushLeft, PushRight, PushUp, PushDown,
              NoDirection}

is_player(f) == f = Player \/ f = PlayerOnTarget

is_pack(f) == f = Pack \/ f = PackOnTarget

is_target(f) == f = Target \/ f = PackOnTarget \/ f = PlayerOnTarget

\* set_player that forgets the target under the cell it enters.
set_player_drops_target(f) == Player

set_player(f) == IF f \in {Target, PackOnTarget} THEN PlayerOnTarget ELSE Player

\* unset_player that forgets the target under the player.
unset_player_drops_target(f) ==
    CASE f = Player -> Empty
      [] f = PlayerOnTarget -> Empty
      [] OTHER -> InvalidField

unset_player(f) ==
    CASE f = Player -> Empty
      [] f = PlayerOnTarget -> Target
      [] OTHER -> InvalidField

\* set_pack that forgets the target under the box.
set_pack_drops_target(f) == Pack

set_pack(f) == IF f \in {Target, PlayerOnTarget} THEN PackOnTarget ELSE Pack

\* unset_pack without the PackOnTarget arm.
unset_pack_no_target_arm(f) ==
    CASE f = Pack -> Empty
      [] OTHER -> InvalidField

unset_pack(f) ==
    CASE f = Pack -> Empty
      [] f = PackOnTarget -> Target
      [] OTHER -> InvalidField

\* ------------------------------------------------------------------ usize

\* The two ways the crate is built: overflow checks on (debug) or off (release).
Builds == {"debug", "release"}

\* Stand-in for usize::MAX: larger than every index and count of the model.
UsizeMax == 2147483647

\* a - b on usize where the build wraps (release).
wrapping_sub(a, b) == IF a >= b THEN a - b ELSE UsizeMax - (b - a) + 1

\* ------------------------------------------------------------------ helpers

None == <<>>
Some(v) == <<v>>

\* iter().position(pred): the first index (from 0) whose cell is a player.
RECURSIVE position_from(_, _)
position_from(area, i) ==
    IF i > Len(area) THEN None
    ELSE IF is_player(area[i]) THEN Some(i - 1)
    ELSE position_from(area, i + 1)

player_position(area) == position_from(area, 1)

\* iter().filter(pred).count() for the three predicates the code counts with.
count_players(area) == Cardinality({i \in 1..Len(area) : is_player(area[i])})
count_packs(area) == Cardinality({i \in 1..Len(area) : is_pack(area[i])})
count_targets(area) == Cardinality({i \in 1..Len(area) : is_target(area[i])})

\* ------------------------------------------------------------------ characters

\* The characters a level string is drawn from: the seven the parser knows,
\* one other ASCII character, and one character that takes two bytes in UTF-8.
FieldChars == {" ", "#", "@", "+", ".", "$", "*"}
OtherChar == "x"
WideChar == "U+00E9"
Chars == FieldChars \cup {OtherChar, WideChar}

\* The number of bytes of one character in a &str.
len_utf8(c) == IF c = WideChar THEN 2 ELSE 1

char_to_field(x) ==
    CASE x = " " -> Empty
      [] x = "#" -> Wall
      [] x = "@" -> Player
      [] x = "+" -> PlayerOnTarget
      [] x = "." -> Target
      [] x = "$" -> Pack
      [] x = "*" -> PackOnTarget
      [] OTHER -> Empty

is_not_field(x) ==
    x # " " /\ x # "#" /\ x # "@" /\ x # "+" /\ x # "." /\ x # "$" /\ x # "*"

\* ------------------------------------------------------------------ level.rs

\* A Level: width, height and the row-major grid (the name plays no part).
LevelOf(w, h, area) == [width |-> w, height |-> h, area |-> area]

\* self.area[y*self.width + x]
cell(lv, x, y) == lv.area[y * lv.width + x + 1]

CheckErrorsNew == <<>>

NoPlayer == <<"NoPlayer">>
TooManyPlayers == <<"TooManyPlayers">>
LevelOpen == <<"LevelOpen">>
TooFewPacks(n) == <<"TooFewPacks", n>>
TooFewTargets(n) == <<"TooFewTargets", n>>
PackNotAvailable(x, y) == <<"PackNotAvailable", x, y>>
TargetNotAvailable(x, y) == <<"TargetNotAvailable", x, y>>
LockedPackApartWalls(x, y) == <<"LockedPackApartWalls", x, y>>
Locked2x2Block(x, y) == <<"Locked2x2Block", x, y>>

\* The variant of CheckError that check never pushes.
NoPacksAndTargets == <<"NoPacksAndTargets">>

StackItem(x, y, d) == [x |-> x, y |-> y, d |-> d]

\* fill_step whose last arm never pushes the cell below.
fill_step_no_up(lv, it) ==
    CASE it.d = Left ->
           [d |-> Right,
            next |-> IF it.x > 0 THEN Some(<<it.x - 1, it.y>>) ELSE None,
            touch |-> ~(it.x > 0)]
      [] it.d = Right ->
           [d |-> Down,
            next |-> IF it.x + 1 < lv.width THEN Some(<<it.x + 1, it.y>>) ELSE None,
            touch |-> ~(it.x + 1 < lv.width)]
      [] it.d = Down ->
           [d |-> Up,
            next |-> IF it.y > 0 THEN Some(<<it.x, it.y - 1>>) ELSE None,
            touch |-> ~(it.y > 0)]
      [] it.d = Up ->
           [d |-> NoDirection,
            next |-> None,
            touch |-> ~(it.y + 1 < lv.height)]
      [] OTHER ->
           [d |-> it.d, next |-> None, touch |-> FALSE]

\* fill_step whose second arm forgets to set the flag at the right edge.
fill_step_right_no_touch(lv, it) ==
    CASE it.d = Left ->
           [d |-> Right,
            next |-> IF it.x > 0 THEN Some(<<it.x - 1, it.y>>) ELSE None,
            touch |-> ~(it.x > 0)]
      [] it.d = Right ->
           [d |-> Down,
            next |-> IF it.x + 1 < lv.width THEN Some(<<it.x + 1, it.y>>) ELSE None,
            touch |-> FALSE]
      [] it.d = Down ->
           [d |-> Up,
            next |-> IF it.y > 0 THEN Some(<<it.x, it.y - 1>>) ELSE None,
            touch |-> ~(it.y > 0)]
      [] it.d = Up ->
           [d |-> NoDirection,
            next |-> IF it.y + 1 < lv.height THEN Some(<<it.x, it.y + 1>>) ELSE None,
            touch |-> ~(it.y + 1 < lv.height)]
      [] OTHER ->
           [d |-> it.d, next |-> None, touch |-> FALSE]

\* One turn of the while loop of check_level_by_fill on the top stack item:
\* the direction the item is left with, the cell to push (if any) and whether
\* the grid's frame was touched.
fill_step(lv, it) ==
    CASE it.d = Left ->
           [d |-> Right,
            next |-> IF it.x > 0 THEN Some(<<it.x - 1, it.y>>) ELSE None,
            touch |-> ~(it.x > 0)]
      [] it.d = Right ->
           [d |-> Down,
            next |-> IF it.x + 1 < lv.width THEN Some(<<it.x + 1, it.y>>) ELSE None,
            touch |-> ~(it.x + 1 < lv.width)]
      [] it.d = Down ->
           [d |-> Up,
            next |-> IF it.y > 0 THEN Some(<<it.x, it.y - 1>>) ELSE None,
            touch |-> ~(it.y > 0)]
      [] it.d = Up ->
           [d |-> NoDirection,
            next |-> IF it.y + 1 < lv.height THEN Some(<<it.x, it.y + 1>>) ELSE None,
            touch |-> ~(it.y + 1 < lv.height)]
      [] OTHER ->
           [d |-> it.d, next |-> None, touch |-> FALSE]

\* fill_turn that walks on from a cell whether or not it is filled already.
fill_turn_refills(lv, w) ==
    LET n == Len(w.stk)
        it == w.stk[n]
        idx == it.y * lv.width + it.x + 1
    IN IF lv.area[idx] = Wall
       THEN [w EXCEPT !.stk = SubSeq(@, 1, n - 1)]
       ELSE
         LET st == fill_step(lv, it)
             stk2 == [w.stk EXCEPT ![n].d = st.d]
         IN [filled |-> [w.filled EXCEPT ![idx] = TRUE],
             stk |-> IF st.next # None
                     THEN Append(stk2, StackItem(st.next[1][1], st.next[1][2], Left))
                     ELSE IF st.d = NoDirection THEN SubSeq(stk2, 1, n - 1)
                     ELSE stk2,
             touch_frames |-> w.touch_frames \/ st.touch]

\* The body of the while loop of check_level_by_fill: one turn on the loop
\* state w (the filled grid, the stack and the touch_frames flag).
fill_turn(lv, w) ==
    LET n == Len(w.stk)
        it == w.stk[n]
        idx == it.y * lv.width + it.x + 1
    IN IF lv.area[idx] = Wall \/ (w.filled[idx] /\ it.d = Left)
       THEN [w EXCEPT !.stk = SubSeq(@, 1, n - 1)]
       ELSE
         LET st == fill_step(lv, it)
             stk2 == [w.stk EXCEPT ![n].d = st.d]
         IN [filled |-> [w.filled EXCEPT ![idx] = TRUE],
             stk |-> IF st.next # None
                     THEN Append(stk2, StackItem(st.next[1][1], st.next[1][2], Left))
                     ELSE IF st.d = NoDirection THEN SubSeq(stk2, 1, n - 1)
                     ELSE stk2,
             touch_frames |-> w.touch_frames \/ st.touch]

\* At most n turns of the loop, stopping when the stack is empty.  The turns
\* are taken half by half, which keeps the evaluation shallow.
RECURSIVE fill_turns(_, _, _)
fill_turns(lv, w, n) ==
    IF Len(w.stk) = 0 THEN w
    ELSE IF n = 1 THEN fill_turn(lv, w)
    ELSE LET half == CHOOSE h \in {fill_turns(lv, w, n \div 2)} : TRUE
         IN fill_turns(lv, half, n - (n \div 2))

\* while stk.len() != 0 { ... }: turns are taken, n and then twice as many
\* each time, until the stack is empty.
RECURSIVE fill_loop(_, _, _)
fill_loop(lv, w, n) ==
    LET r == CHOOSE h \in {fill_turns(lv, w, n)} : TRUE
    IN IF Len(r.stk) = 0 THEN r ELSE fill_loop(lv, r, 2 * n)

\* The while loop of check_level_by_fill, run until the stack is empty.
fill_walk(lv, filled, stk, touch_frames) ==
    LET r == CHOOSE h \in {fill_loop(lv, [filled |-> filled, stk |-> stk,
                                          touch_frames |-> touch_frames], 8)}
                  : TRUE
    IN [filled |-> r.filled, touch_frames |-> r.touch_frames]

\* The walk from (px, py): the filled grid and the touch_frames flag.
fill_from(lv, px, py) ==
    fill_walk(lv, [i \in 1..(lv.width * lv.height) |-> FALSE],
              <<StackItem(px, py, Left)>>, FALSE)

\* not_available that reports every cell equal to `what`, marked or not.
RECURSIVE not_available_ignores_fill(_, _, _, _)
not_available_ignores_fill(lv, filled, what, i) ==
    IF i >= Len(lv.area) THEN <<>>
    ELSE (IF lv.area[i + 1] = what
          THEN <<IF what = Pack
                 THEN PackNotAvailable(i % lv.width, i \div lv.width)
                 ELSE TargetNotAvailable(i % lv.width, i \div lv.width)>>
          ELSE <<>>)
         \o not_available_ignores_fill(lv, filled, what, i + 1)

\* The two availability passes after the walk, each in row-major order.
RECURSIVE not_available(_, _, _, _)
not_available(lv, filled, what, i) ==
    IF i >= Len(lv.area) THEN <<>>
    ELSE (IF lv.area[i + 1] = what /\ ~filled[i + 1]
          THEN <<IF what = Pack
                 THEN PackNotAvailable(i % lv.width, i \div lv.width)
                 ELSE TargetNotAvailable(i % lv.width, i \div lv.width)>>
          ELSE <<>>)
         \o not_available(lv, filled, what, i + 1)

\* check_level_by_fill that never reports LevelOpen.
check_level_by_fill_never_open(lv, px, py) ==
    LET r == fill_from(lv, px, py)
    IN not_available(lv, r.filled, Pack, 0)
       \o not_available(lv, r.filled, Target, 0)

\* check_level_by_fill without the pass over the targets.
check_level_by_fill_packs_only(lv, px, py) ==
    LET r == fill_from(lv, px, py)
    IN (IF r.touch_frames THEN <<LevelOpen>> ELSE <<>>)
       \o not_available(lv, r.filled, Pack, 0)

\* The errors check_level_by_fill pushes.
check_level_by_fill(lv, px, py) ==
    LET r == fill_from(lv, px, py)
    IN (IF r.touch_frames THEN <<LevelOpen>> ELSE <<>>)
       \o not_available(lv, r.filled, Pack, 0)
       \o not_available(lv, r.filled, Target, 0)

\* players_errors that accepts a second player.
players_errors_two_allowed(lv) ==
    LET players_num == count_players(lv.area)
    IN CASE players_num = 0 -> <<NoPlayer>>
         [] players_num \in {1, 2} -> <<>>
         [] OTHER -> <<TooManyPlayers>>

\* The player-count error of check.
players_errors(lv) ==
    LET players_num == count_players(lv.area)
    IN CASE players_num = 0 -> <<NoPlayer>>
         [] players_num = 1 -> <<>>
         [] OTHER -> <<TooManyPlayers>>

\* counts_errors that reports the number it has instead of the number required.
counts_errors_own_number(lv) ==
    LET packs_num == count_packs(lv.area)
        targets_num == count_targets(lv.area)
    IN IF packs_num < targets_num THEN <<TooFewPacks(packs_num)>>
       ELSE IF targets_num < packs_num THEN <<TooFewTargets(targets_num)>>
       ELSE <<>>

\* The box / target count error of check.
\* counts_errors that wants at least one box or target.
counts_errors_wants_packs(lv) ==
    LET packs_num == count_packs(lv.area)
        targets_num == count_targets(lv.area)
    IN IF packs_num < targets_num THEN <<TooFewPacks(targets_num)>>
       ELSE IF targets_num < packs_num THEN <<TooFewTargets(packs_num)>>
       ELSE IF packs_num = 0 THEN <<NoPacksAndTargets>>
       ELSE <<>>

\* counts_errors that never finds the two counts apart.
counts_errors_never(lv) == CheckErrorsNew

counts_errors(lv) ==
    LET packs_num == count_packs(lv.area)
        targets_num == count_targets(lv.area)
    IN IF packs_num < targets_num THEN <<TooFewPacks(targets_num)>>
       ELSE IF targets_num < packs_num THEN <<TooFewTargets(packs_num)>>
       ELSE <<>>

\* The reachability errors of check: only when a player cell exists.
fill_errors(lv) ==
    LET pp == player_position(lv.area)
    IN IF pp # None
       THEN check_level_by_fill(lv, pp[1] % lv.width, pp[1] \div lv.width)
       ELSE <<>>

is_block(f) == is_pack(f) \/ f = Wall

\* locked_2x2 that does not look at which boxes stand on targets.
locked_2x2_any_block(lv, ix, iy) ==
    LET fs == <<cell(lv, ix, iy), cell(lv, ix + 1, iy),
                cell(lv, ix, iy + 1), cell(lv, ix + 1, iy + 1)>>
    IN \A k \in 1..4 : is_block(fs[k])

\* The body of the 2x2 loop for the window whose top-left cell is (ix, iy).
locked_2x2(lv, ix, iy) ==
    LET fs == <<cell(lv, ix, iy), cell(lv, ix + 1, iy),
                cell(lv, ix, iy + 1), cell(lv, ix + 1, iy + 1)>>
        packs == Cardinality({k \in 1..4 : is_pack(fs[k])})
        packs_on_target == Cardinality({k \in 1..4 : fs[k] = PackOnTarget})
    IN (\A k \in 1..4 : is_block(fs[k])) /\ packs_on_target # packs

\* for iy in 0..height-1 { for ix in 0..width-1 { ... } }, from window k on.
RECURSIVE locks_2x2(_, _)
locks_2x2(lv, k) ==
    LET cols == lv.width - 1
        ix == k % cols
        iy == k \div cols
    IN IF cols <= 0 \/ k >= cols * (lv.height - 1) THEN <<>>
       ELSE (IF locked_2x2(lv, ix, iy) THEN <<Locked2x2Block(ix, iy)>> ELSE <<>>)
            \o locks_2x2(lv, k + 1)

\* locked_apart_walls that takes a box on a target for a plain box.
locked_apart_walls_any_pack(lv, ix, iy) ==
    LET field_u == cell(lv, ix, iy - 1)
        field_l == cell(lv, ix - 1, iy)
        field == cell(lv, ix, iy)
        field_r == cell(lv, ix + 1, iy)
        field_d == cell(lv, ix, iy + 1)
    IN /\ is_pack(field)
       /\ \/ (field_u = Wall /\ (field_l = Wall \/ field_r = Wall))
          \/ (field_d = Wall /\ (field_l = Wall \/ field_r = Wall))
          \/ (field_l = Wall /\ (field_u = Wall \/ field_d = Wall))
          \/ (field_r = Wall /\ (field_u = Wall \/ field_d = Wall))

\* The body of the corner loop for the interior cell (ix, iy).
locked_apart_walls(lv, ix, iy) ==
    LET field_u == cell(lv, ix, iy - 1)
        field_l == cell(lv, ix - 1, iy)
        field == cell(lv, ix, iy)
        field_r == cell(lv, ix + 1, iy)
        field_d == cell(lv, ix, iy + 1)
    IN /\ field = Pack
       /\ \/ (field_u = Wall /\ (field_l = Wall \/ field_r = Wall))
          \/ (field_d = Wall /\ (field_l = Wall \/ field_r = Wall))
          \/ (field_l = Wall /\ (field_u = Wall \/ field_d = Wall))
          \/ (field_r = Wall /\ (field_u = Wall \/ field_d = Wall))

\* for iy in 1..height-1 { for ix in 1..width-1 { ... } }, from cell k on.
RECURSIVE locks_apart_walls(_, _)
locks_apart_walls(lv, k) ==
    LET cols == lv.width - 2
        ix == 1 + (k % cols)
        iy == 1 + (k \div cols)
    IN IF cols <= 0 \/ k >= cols * (lv.height - 2) THEN <<>>
       ELSE (IF locked_apart_walls(lv, ix, iy)
             THEN <<LockedPackApartWalls(ix, iy)>> ELSE <<>>)
            \o locks_apart_walls(lv, k + 1)

\* How the loop bounds height-1 and width-1 end check on a grid without
\* cells: "" when the loops run normally, else the abort.  On a debug build
\* the subtraction from 0 panics as soon as it is evaluated; on a release
\* build it wraps and the first area[..] read is out of bounds.
check_abort(lv, build) ==
    IF lv.height = 0
    THEN IF build = "debug" THEN "attempt to subtract with overflow"
         ELSE IF lv.width = 1 THEN "" ELSE "index out of bounds"
    ELSE IF lv.width = 0 /\ lv.height >= 2
    THEN IF build = "debug" THEN "attempt to subtract with overflow"
         ELSE "index out of bounds"
    ELSE ""

\* check that looks for the locks before it walks the grid.
check_locks_first(lv, build) ==
    LET abort == check_abort(lv, build)
        errors == players_errors(lv) \o counts_errors(lv)
                  \o (IF lv.width >= 1 /\ lv.height >= 1
                      THEN locks_2x2(lv, 0) \o locks_apart_walls(lv, 0)
                      ELSE <<>>)
                  \o fill_errors(lv)
    IN [errors |-> IF abort = "" THEN errors ELSE <<>>,
        ok |-> abort = "" /\ ~(Len(errors) # 0),
        abort |-> abort]

\* check that returns as soon as one of its passes has found something.
check_stops_at_first(lv, build) ==
    LET abort == check_abort(lv, build)
        errors == IF players_errors(lv) # <<>> THEN players_errors(lv)
                  ELSE IF counts_errors(lv) # <<>> THEN counts_errors(lv)
                  ELSE IF fill_errors(lv) # <<>> THEN fill_errors(lv)
                  ELSE IF lv.width >= 1 /\ lv.height >= 1
                  THEN (IF locks_2x2(lv, 0) # <<>> THEN locks_2x2(lv, 0)
                        ELSE locks_apart_walls(lv, 0))
                  ELSE <<>>
    IN [errors |-> IF abort = "" THEN errors ELSE <<>>,
        ok |-> abort = "" /\ ~(Len(errors) # 0),
        abort |-> abort]

\* Level::check: the error list, whether the result is Ok(()) (the list is
\* empty) and the abort, if any.
check(lv, build) ==
    LET abort == check_abort(lv, build)
        errors == players_errors(lv) \o counts_errors(lv) \o fill_errors(lv)
                  \o (IF lv.width >= 1 /\ lv.height >= 1
                      THEN locks_2x2(lv, 0) \o locks_apart_walls(lv, 0)
                      ELSE <<>>)
    IN [errors |-> IF abort = "" THEN errors ELSE <<>>,
        ok |-> abort = "" /\ ~(Len(errors) # 0),
        abort |-> abort]

\* ------------------------------------------------------------------ parsing

WrongSize(w, h) == <<"WrongSize", w, h>>
WrongField(x, y) == <<"WrongField", x, y>>

\* Result<Level, ParseError>
ParseOk(lv) == [ok |-> TRUE, level |-> lv, error |-> <<>>]
ParseErr(e) == [ok |-> FALSE, level |-> LevelOf(0, 0, <<>>), error |-> e]

\* Level::empty()
Level_empty == LevelOf(0, 0, <<>>)

\* Level::new(name, width, height, area)
Level_new(width, height, cells) ==
    IF Len(cells) = width * height
    THEN ParseOk(LevelOf(width, height, cells))
    ELSE ParseErr(WrongSize(width, height))

\* astr.len(): the length of the string in bytes.
RECURSIVE str_len(_)
str_len(astr) ==
    IF astr = <<>> THEN 0 ELSE len_utf8(Head(astr)) + str_len(Tail(astr))

\* astr.chars().position(is_not_field), counted in characters from 0.
chars_position(astr) ==
    IF \E i \in 1..Len(astr) : is_not_field(astr[i])
    THEN Some((CHOOSE i \in 1..Len(astr) :
                  /\ is_not_field(astr[i])
                  /\ \A j \in 1..(i - 1) : ~is_not_field(astr[j])) - 1)
    ELSE None

\* from_str that reports the row where the column belongs and the column
\* where the row belongs.
from_str_swapped(width, height, astr) ==
    IF str_len(astr) # width * height
    THEN ParseErr(WrongSize(width, height))
    ELSE LET pp == chars_position(astr)
         IN  IF pp # None
             THEN ParseErr(WrongField(pp[1] \div width, pp[1] % width))
             ELSE ParseOk(LevelOf(width, height,
                                  [i \in 1..Len(astr) |-> char_to_field(astr[i])]))

\* Level::from_str(name, width, height, astr)
from_str(width, height, astr) ==
    IF str_len(astr) # width * height
    THEN ParseErr(WrongSize(width, height))
    ELSE LET pp == chars_position(astr)
         IN  IF pp # None
             THEN ParseErr(WrongField(pp[1] % width, pp[1] \div width))
             ELSE ParseOk(LevelOf(width, height,
                                  [i \in 1..Len(astr) |-> char_to_field(astr[i])]))

\* ------------------------------------------------------------------ level_state.rs

\* The fields of a LevelState other than the borrowed level.
LevelStateOf(px, py, a, m, pc) ==
    [player_x |-> px, player_y |-> py, area |-> a, moves |-> m, pushes_count |-> pc]

\* The placeholder for "no LevelState": before new, or after new failed.
NoLevelState == LevelStateOf(0, 0, <<>>, <<>>, 0)

NoPanic == ""

\* area[pos] as the code reads it; an index outside the Vec aborts.
in_area(a, pos) == pos >= 0 /\ pos < Len(a)

\* LevelState::new: Ok(state), Err(errors) or the abort of check.
\* LevelState::new that hands a level without a player to check all the same.
LevelState_new_checks_all(lv, build) ==
    LET pp == player_position(lv.area)
        c == check(lv, build)
    IN IF c.abort # NoPanic
       THEN [ok |-> FALSE, state |-> NoLevelState, errors |-> <<>>,
             panic |-> c.abort]
       ELSE IF Len(c.errors) # 0
       THEN [ok |-> FALSE, state |-> NoLevelState, errors |-> c.errors,
             panic |-> NoPanic]
       ELSE [ok |-> TRUE,
             state |-> LevelStateOf(pp[1] % lv.width, pp[1] \div lv.width,
                                    lv.area, <<>>, 0),
             errors |-> <<>>, panic |-> NoPanic]

LevelState_new(lv, build) ==
    LET pp == player_position(lv.area)
    IN IF pp # None
       THEN LET c == check(lv, build)
            IN IF c.abort # NoPanic
               THEN [ok |-> FALSE, state |-> NoLevelState, errors |-> <<>>,
                     panic |-> c.abort]
               ELSE IF Len(c.errors) # 0
               THEN [ok |-> FALSE, state |-> NoLevelState, errors |-> c.errors,
                     panic |-> NoPanic]
               ELSE [ok |-> TRUE,
                     state |-> LevelStateOf(pp[1] % lv.width, pp[1] \div lv.width,
                                            lv.area, <<>>, 0),
                     errors |-> <<>>, panic |-> NoPanic]
       ELSE [ok |-> FALSE, state |-> NoLevelState, errors |-> <<NoPlayer>>,
             panic |-> NoPanic]

\* reset that leaves the push counter as it is.
reset_keeps_pushes_count(lv, s) ==
    LET pp == player_position(lv.area)
    IN IF pp # None
       THEN [state |-> LevelStateOf(pp[1] % lv.width, pp[1] \div lv.width,
                                    lv.area, <<>>, s.pushes_count),
             panic |-> NoPanic]
       ELSE [state |-> s, panic |-> "No player!"]

\* LevelState::reset.
reset(lv, s) ==
    LET pp == player_position(lv.area)
    IN IF pp # None
       THEN [state |-> LevelStateOf(pp[1] % lv.width, pp[1] \div lv.width,
                                    lv.area, <<>>, 0),
             panic |-> NoPanic]
       ELSE [state |-> s, panic |-> "No player!"]

\* is_done that only compares the number of boxes with the number of targets.
is_done_counts_only(s) == count_packs(s.area) = count_targets(s.area)

\* LevelState::is_done.
is_done(s) ==
    LET packs_num == count_packs(s.area)
        targets_num == count_targets(s.area)
        packs_on_targets_num ==
            Cardinality({i \in 1..Len(s.area) : s.area[i] = PackOnTarget})
    IN packs_num = packs_on_targets_num /\ targets_num = packs_on_targets_num

\* move_setup that records the label it was called with instead of the
\* normalised plain and push labels.
move_setup_keeps_label(lv, s, dir) ==
    LET width == lv.width
        height == lv.height
        x == s.player_x
        y == s.player_y
        this_pos == y * width + x
    IN CASE dir \in {Left, PushLeft} ->
              [pnext_pos |-> IF x > 0 THEN Some(this_pos - 1) ELSE None,
               pnext2_pos |-> IF x > 1 THEN Some(this_pos - 2) ELSE None,
               new_x |-> wrapping_sub(x, 1), new_y |-> y,
               dir |-> dir, push_dir |-> dir,
               underflow |-> x < 1]
         [] dir \in {Right, PushRight} ->
              [pnext_pos |-> IF x < wrapping_sub(width, 1)
                             THEN Some(this_pos + 1) ELSE None,
               pnext2_pos |-> IF x < wrapping_sub(width, 2)
                              THEN Some(this_pos + 2) ELSE None,
               new_x |-> x + 1, new_y |-> y,
               dir |-> dir, push_dir |-> dir,
               underflow |-> width < 2]
         [] dir \in {Up, PushUp} ->
              [pnext_pos |-> IF y > 0 THEN Some(this_pos - width) ELSE None,
               pnext2_pos |-> IF y > 1 THEN Some(this_pos - 2 * width) ELSE None,
               new_x |-> x, new_y |-> wrapping_sub(y, 1),
               dir |-> dir, push_dir |-> dir,
               underflow |-> y < 1]
         [] dir \in {Down, PushDown} ->
              [pnext_pos |-> IF y < wrapping_sub(height, 1)
                             THEN Some(this_pos + width) ELSE None,
               pnext2_pos |-> IF y < wrapping_sub(height, 2)
                              THEN Some(this_pos + 2 * width) ELSE None,
               new_x |-> x, new_y |-> y + 1,
               dir |-> dir, push_dir |-> dir,
               underflow |-> height < 2]
         [] OTHER ->
              [pnext_pos |-> None, pnext2_pos |-> None, new_x |-> 0, new_y |-> 0,
               dir |-> NoDirection, push_dir |-> NoDirection,
               underflow |-> FALSE]

\* The match of make_move on the direction: the next two positions along the
\* axis, the new player position, the plain and the push label, and whether
\* one of the unguarded subtractions (player_x-1, player_y-1, width-2,
\* height-2) goes below zero.
move_setup(lv, s, dir) ==
    LET width == lv.width
        height == lv.height
        x == s.player_x
        y == s.player_y
        this_pos == y * width + x
    IN CASE dir \in {Left, PushLeft} ->
              [pnext_pos |-> IF x > 0 THEN Some(this_pos - 1) ELSE None,
               pnext2_pos |-> IF x > 1 THEN Some(this_pos - 2) ELSE None,
               new_x |-> wrapping_sub(x, 1), new_y |-> y,
               dir |-> Left, push_dir |-> PushLeft,
               underflow |-> x < 1]
         [] dir \in {Right, PushRight} ->
              [pnext_pos |-> IF x < wrapping_sub(width, 1)
                             THEN Some(this_pos + 1) ELSE None,
               pnext2_pos |-> IF x < wrapping_sub(width, 2)
                              THEN Some(this_pos + 2) ELSE None,
               new_x |-> x + 1, new_y |-> y,
               dir |-> Right, push_dir |-> PushRight,
               underflow |-> width < 2]
         [] dir \in {Up, PushUp} ->
              [pnext_pos |-> IF y > 0 THEN Some(this_pos - width) ELSE None,
               pnext2_pos |-> IF y > 1 THEN Some(this_pos - 2 * width) ELSE None,
               new_x |-> x, new_y |-> wrapping_sub(y, 1),
               dir |-> Up, push_dir |-> PushUp,
               underflow |-> y < 1]
         [] dir \in {Down, PushDown} ->
              [pnext_pos |-> IF y < wrapping_sub(height, 1)
                             THEN Some(this_pos + width) ELSE None,
               pnext2_pos |-> IF y < wrapping_sub(height, 2)
                              THEN Some(this_pos + 2 * width) ELSE None,
               new_x |-> x, new_y |-> y + 1,
               dir |-> Down, push_dir |-> PushDown,
               underflow |-> height < 2]
         [] OTHER ->
              [pnext_pos |-> None, pnext2_pos |-> None, new_x |-> 0, new_y |-> 0,
               dir |-> NoDirection, push_dir |-> NoDirection,
               underflow |-> FALSE]

\* plain_move that leaves the player marker on the cell it came from.
plain_move_keeps_origin(s, this_pos, next_pos, new_x, new_y, dir) ==
    LET a1 == [s.area EXCEPT ![next_pos + 1] = set_player(@)]
    IN LevelStateOf(new_x, new_y, a1, Append(s.moves, dir), s.pushes_count)

\* The Empty|Target arm of make_move: the player steps onto next_pos.
plain_move(s, this_pos, next_pos, new_x, new_y, dir) ==
    LET a1 == [s.area EXCEPT ![next_pos + 1] = set_player(@)]
        a2 == [a1 EXCEPT ![this_pos + 1] = unset_player(@)]
    IN LevelStateOf(new_x, new_y, a2, Append(s.moves, dir), s.pushes_count)

\* push_allowed that lets a box be pushed into a Wall.
push_allowed_into_wall(f) == ~is_pack(f)

\* push_allowed that refuses nothing.
push_allowed_always(f) == TRUE

\* push_allowed that only looks for a wall behind the box.
push_allowed_onto_pack(f) == f # Wall

\* The test of the Pack|PackOnTarget arm on the cell behind the box.
push_allowed(f) == f # Wall /\ ~is_pack(f)

\* push_move that leaves pushes_count as it was.
push_move_uncounted(s, this_pos, next_pos, next2_pos, new_x, new_y, push_dir) ==
    LET a1 == [s.area EXCEPT ![next2_pos + 1] = set_pack(@)]
        a2 == [a1 EXCEPT ![next_pos + 1] = set_player(@)]
        a3 == [a2 EXCEPT ![this_pos + 1] = unset_player(@)]
    IN LevelStateOf(new_x, new_y, a3, Append(s.moves, push_dir),
                    s.pushes_count)

\* The Pack|PackOnTarget arm of make_move when the push goes through.
push_move(s, this_pos, next_pos, next2_pos, new_x, new_y, push_dir) ==
    LET a1 == [s.area EXCEPT ![next2_pos + 1] = set_pack(@)]
        a2 == [a1 EXCEPT ![next_pos + 1] = set_player(@)]
        a3 == [a2 EXCEPT ![this_pos + 1] = unset_player(@)]
    IN LevelStateOf(new_x, new_y, a3, Append(s.moves, push_dir),
                    s.pushes_count + 1)

\* A state one of whose cells took the value of a failed unset_*.
has_invalid_field(s) == \E i \in 1..Len(s.area) : s.area[i] = InvalidField

MoveResult(s, moved, pushed) ==
    [state |-> s, ret |-> <<moved, pushed>>, panic |-> NoPanic]

MovePanic(s, msg) ==
    [state |-> s, ret |-> <<FALSE, FALSE>>, panic |-> msg]

\* A refusal that still counts the push that was tried.
refuse_move_counted(s) ==
    MoveResult([s EXCEPT !.pushes_count = @ + 1], FALSE, FALSE)

\* The (false, false) arms of make_move: nothing is written.
refuse_move(s) == MoveResult(s, FALSE, FALSE)

\* LevelState::make_move: the state after, the pair returned, and the panic
\* message when the call aborts instead of returning.
make_move(lv, s, dir, build) ==
    LET m == move_setup(lv, s, dir)
        this_pos == s.player_y * lv.width + s.player_x
    IN IF m.underflow /\ build = "debug"
       THEN MovePanic(s, "attempt to subtract with overflow")
       ELSE IF m.pnext_pos = None THEN refuse_move(s)
       ELSE LET next_pos == m.pnext_pos[1]
            IN IF ~in_area(s.area, next_pos)
               THEN MovePanic(s, "index out of bounds")
               ELSE IF s.area[next_pos + 1] \in {Empty, Target}
               THEN LET t == plain_move(s, this_pos, next_pos, m.new_x, m.new_y, m.dir)
                    IN IF has_invalid_field(t) THEN MovePanic(t, InvalidField)
                       ELSE MoveResult(t, TRUE, FALSE)
               ELSE IF s.area[next_pos + 1] \in {Pack, PackOnTarget}
               THEN IF m.pnext2_pos = None THEN refuse_move(s)
                    ELSE LET next2_pos == m.pnext2_pos[1]
                         IN IF ~in_area(s.area, next2_pos)
                            THEN MovePanic(s, "index out of bounds")
                            ELSE IF push_allowed(s.area[next2_pos + 1])
                            THEN LET t == push_move(s, this_pos, next_pos, next2_pos,
                                                    m.new_x, m.new_y, m.push_dir)
                                 IN IF has_invalid_field(t)
                                    THEN MovePanic(t, InvalidField)
                                    ELSE MoveResult(t, TRUE, TRUE)
                            ELSE refuse_move(s)
               ELSE refuse_move(s)

\* The match of undo_move on the popped direction: the cell the player came
\* from, the cell the pushed box stands on (push variants only), the old
\* player position, and the panic of the arm, if any.
undo_setup(lv, s, dir) ==
    LET width == lv.width
        height == lv.height
        x == s.player_x
        y == s.player_y
        this_pos == y * width + x
    IN CASE dir \in {Right, PushRight} ->
              [prev_pos |-> this_pos - 1,
               pnext_pos |-> IF dir = PushRight THEN Some(this_pos + 1) ELSE None,
               old_x |-> x - 1, old_y |-> y,
               panic |-> IF x = 0 THEN "Unexpected frame" ELSE NoPanic]
         [] dir \in {Left, PushLeft} ->
              [prev_pos |-> this_pos + 1,
               pnext_pos |-> IF dir = PushLeft THEN Some(this_pos - 1) ELSE None,
               old_x |-> x + 1, old_y |-> y,
               panic |-> IF x >= wrapping_sub(width, 1)
                         THEN "Unexpected frame" ELSE NoPanic]
         [] dir \in {Down, PushDown} ->
              [prev_pos |-> this_pos - width,
               pnext_pos |-> IF dir = PushDown THEN Some(this_pos + width) ELSE None,
               old_x |-> x, old_y |-> y - 1,
               panic |-> IF y = 0 THEN "Unexpected frame" ELSE NoPanic]
         [] dir \in {Up, PushUp} ->
              [prev_pos |-> this_pos + width,
               pnext_pos |-> IF dir = PushUp THEN Some(this_pos - width) ELSE None,
               old_x |-> x, old_y |-> y + 1,
               panic |-> IF y >= wrapping_sub(height, 1)
                         THEN "Unexpected frame" ELSE NoPanic]
         [] OTHER ->
              [prev_pos |-> 0, pnext_pos |-> None, old_x |-> 0, old_y |-> 0,
               panic |-> "Unknown direction"]

\* undo_push that leaves the push counter as it is.
undo_push_keeps_count(s, this_pos, next_pos) ==
    LET a1 == [s.area EXCEPT ![next_pos + 1] = unset_pack(@)]
        a2 == [a1 EXCEPT ![this_pos + 1] = set_pack(@)]
    IN [s EXCEPT !.area = a2]

\* The if-let of undo_move on a push entry: the box goes back to the
\* player's cell and the counter goes down by one.
undo_push(s, this_pos, next_pos) ==
    LET a1 == [s.area EXCEPT ![next_pos + 1] = unset_pack(@)]
        a2 == [a1 EXCEPT ![this_pos + 1] = set_pack(@)]
    IN [s EXCEPT !.area = a2, !.pushes_count = wrapping_sub(@, 1)]

\* The else of that if-let, on a plain entry: the player leaves its cell.
undo_plain(s, this_pos) ==
    [s EXCEPT !.area = [@ EXCEPT ![this_pos + 1] = unset_player(@)]]

\* undo_player that does not write player_x back.
undo_player_keeps_x(s, prev_pos, old_x, old_y) ==
    [s EXCEPT !.area = [@ EXCEPT ![prev_pos + 1] = set_player(@)],
              !.player_y = old_y]

\* The tail of undo_move: the player is set on the cell it came from.
undo_player(s, prev_pos, old_x, old_y) ==
    [s EXCEPT !.area = [@ EXCEPT ![prev_pos + 1] = set_player(@)],
              !.player_x = old_x, !.player_y = old_y]

\* moves.last() in place of moves.pop(): the entry stays in the log.
pop_move_keeps_entry(s) == s

\* self.moves.pop(), the log non-empty.
pop_move(s) == [s EXCEPT !.moves = SubSeq(@, 1, Len(@) - 1)]

UndoResult(s, undone) == [state |-> s, ret |-> undone, panic |-> NoPanic]

UndoPanic(s, msg) == [state |-> s, ret |-> FALSE, panic |-> msg]

\* LevelState::undo_move: the state after, the boolean returned, and the
\* panic message when the call aborts instead of returning.
undo_move(lv, s, build) ==
    IF Len(s.moves) = 0 THEN UndoResult(s, FALSE)
    ELSE
      LET dir == s.moves[Len(s.moves)]
          popped == pop_move(s)
          this_pos == s.player_y * lv.width + s.player_x
          u == undo_setup(lv, s, dir)
      IN IF u.panic # NoPanic THEN UndoPanic(popped, u.panic)
         ELSE IF u.pnext_pos # None
                 /\ (u.pnext_pos[1] < 0 /\ build = "debug")
         THEN UndoPanic(popped, "attempt to subtract with overflow")
         ELSE IF u.pnext_pos # None /\ ~in_area(s.area, u.pnext_pos[1])
         THEN UndoPanic(popped, "index out of bounds")
         ELSE
           LET t == IF u.pnext_pos # None
                    THEN undo_push(popped, this_pos, u.pnext_pos[1])
                    ELSE undo_plain(popped, this_pos)
           IN IF has_invalid_field(t) THEN UndoPanic(t, InvalidField)
              ELSE IF u.pnext_pos # None /\ s.pushes_count = 0 /\ build = "debug"
              THEN UndoPanic(t, "attempt to subtract with overflow")
              ELSE IF ~in_area(s.area, u.prev_pos)
              THEN UndoPanic(t, "index out of bounds")
              ELSE UndoResult(undo_player(t, u.prev_pos, u.old_x, u.old_y), TRUE)

\* ------------------------------------------------------------------ levels

\* A walled grid whose free cells are the <<x, y>> of `free`.
room_of(w, h, free) ==
    LevelOf(w, h, [i \in 1..(w * h) |->
        IF <<(i - 1) % w, (i - 1) \div w>> \in free THEN Empty ELSE Wall])

\* A cross: a centre cell with one free cell on each of its four sides.
RoomCross == room_of(5, 5, {<<2, 1>>, <<1, 2>>, <<2, 2>>, <<3, 2>>, <<2, 3>>})

\* A hall of three by two free cells.
RoomHall == room_of(5, 4, {<<1, 1>>, <<2, 1>>, <<3, 1>>, <<1, 2>>, <<2, 2>>, <<3, 2>>})

\* Three chambers: two single cells in one row and a corridor of three below.
RoomChambers == room_of(5, 5, {<<1, 1>>, <<3, 1>>, <<1, 3>>, <<2, 3>>, <<3, 3>>})

\* A corridor whose right end is a gap in the frame.
RoomDoor == room_of(4, 3, {<<1, 1>>, <<2, 1>>, <<3, 1>>})

Rooms == {RoomCross, RoomHall, RoomChambers, RoomDoor}

free_cells(room) == {i \in 1..Len(room.area) : room.area[i] # Wall}

\* The cell with the given occupant on the given ground.
field_of(player, pack, target) ==
    IF player THEN (IF target THEN PlayerOnTarget ELSE Player)
    ELSE IF pack THEN (IF target THEN PackOnTarget ELSE Pack)
    ELSE IF target THEN Target ELSE Empty

\* The room with players on the cells P, boxes on B and targets on T.
place(room, P, B, T) ==
    LevelOf(room.width, room.height, [i \in 1..Len(room.area) |->
        IF room.area[i] = Wall THEN Wall
        ELSE field_of(i \in P, i \in B, i \in T)])

\* Every level made of a room with at most one player, at most MaxPacks
\* boxes and at most MaxPacks targets on its free cells.
Levels ==
    UNION {
      {place(room, P, B, T) :
         <<P, B, T>> \in
           {c \in (SUBSET free_cells(room)) \X (SUBSET free_cells(room))
                    \X (SUBSET free_cells(room)) :
              /\ Cardinality(c[1]) <= 1
              /\ Cardinality(c[2]) <= MaxPacks
              /\ Cardinality(c[3]) <= MaxPacks
              /\ c[1] \cap c[2] = {}}}
      : room \in Rooms}

\* ------------------------------------------------------------------ the program

VARIABLES
    level,          \* the Level the state borrows
    phase,          \* "level": no state yet; "playing": new returned Ok;
                    \* "failed": new returned Err; "aborted": a call panicked
    player_x, player_y, area, moves, pushes_count,   \* the LevelState
    errors,         \* the CheckErrors of a failed new
    panic,          \* the message of the panic that aborted the program
    call,           \* the last call: its name and its direction argument
    ret,            \* what the last call returned
    filled, stk, touch_frames,   \* the locals of check_level_by_fill
    expanded        \* how often the walk has expanded each cell

vars == <<level, phase, player_x, player_y, area, moves, pushes_count,
          errors, panic, call, ret, filled, stk, touch_frames, expanded>>

\* The locals of check_level_by_fill, and the state in which no walk runs.
fill_vars == <<filled, stk, touch_frames, expanded>>

no_fill ==
    /\ filled = <<>>
    /\ stk = <<>>
    /\ touch_frames = FALSE
    /\ expanded = <<>>

\* The LevelState as one value.
state == LevelStateOf(player_x, player_y, area, moves, pushes_count)

set_state(s) ==
    /\ player_x' = s.player_x
    /\ player_y' = s.player_y
    /\ area' = s.area
    /\ moves' = s.moves
    /\ pushes_count' = s.pushes_count

Call(name, dir) == [op |-> name, dir |-> dir]

Init ==
    /\ level \in Levels
    /\ phase = "level"
    /\ player_x = 0
    /\ player_y = 0
    /\ area = <<>>
    /\ moves = <<>>
    /\ pushes_count = 0
    /\ errors = <<>>
    /\ panic = NoPanic
    /\ call = Call("none", NoDirection)
    /\ ret = <<>>
    /\ no_fill

\* let state = LevelState::new(&level)
New ==
    /\ phase = "level"
    /\ \E r \in {LevelState_new(level, build) : build \in Builds} :
            /\ phase' = IF r.panic # NoPanic THEN "aborted"
                        ELSE IF r.ok THEN "playing" ELSE "failed"
            /\ set_state(r.state)
            /\ errors' = r.errors
            /\ panic' = r.panic
            /\ call' = Call("new", NoDirection)
            /\ ret' = <<r.ok>>
    /\ UNCHANGED level
    /\ UNCHANGED fill_vars

\* state.make_move(dir)
MakeMove ==
    /\ phase = "playing"
    /\ \E dir \in Direction :
         \E r \in {make_move(level, state, dir, build) : build \in Builds} :
            /\ Len(r.state.moves) <= MaxMoves
            /\ phase' = IF r.panic # NoPanic THEN "aborted" ELSE phase
            /\ set_state(r.state)
            /\ panic' = r.panic
            /\ call' = Call("make_move", dir)
            /\ ret' = r.ret
    /\ UNCHANGED <<level, errors>>
    /\ UNCHANGED fill_vars

\* state.undo_move()
UndoMove ==
    /\ phase = "playing"
    /\ \E r \in {undo_move(level, state, build) : build \in Builds} :
            /\ phase' = IF r.panic # NoPanic THEN "aborted" ELSE phase
            /\ set_state(r.state)
            /\ panic' = r.panic
            /\ call' = Call("undo_move", NoDirection)
            /\ ret' = <<r.ret>>
    /\ UNCHANGED <<level, errors>>
    /\ UNCHANGED fill_vars

\* state.reset()
Reset ==
    /\ phase = "playing"
    /\ \E r \in {reset(level, state)} :
          /\ phase' = IF r.panic # NoPanic THEN "aborted" ELSE phase
          /\ set_state(r.state)
          /\ panic' = r.panic
          /\ call' = Call("reset", NoDirection)
          /\ ret' = <<>>
    /\ UNCHANGED <<level, errors>>
    /\ UNCHANGED fill_vars

\* state.is_done()
IsDone ==
    /\ phase = "playing"
    /\ call' = Call("is_done", NoDirection)
    /\ ret' = <<is_done(state)>>
    /\ UNCHANGED <<level, phase, player_x, player_y, area, moves, pushes_count,
                   errors, panic>>
    /\ UNCHANGED fill_vars

Next == New \/ MakeMove \/ UndoMove \/ Reset \/ IsDone

Spec == Init /\ [][Next]_vars

\* ------------------------------------------------ the monolithic library

\* lib.rs holds a LevelState of its own: its new only looks for the player and
\* never runs check; its make_move is the one above without the pushes_count
\* line, so the count stays in the state and nothing of lib.rs reads it.
LevelState_new_mono(lv, build) ==
    LET pp == player_position(lv.area)
    IN IF pp # None
       THEN [ok |-> TRUE,
             state |-> LevelStateOf(pp[1] % lv.width, pp[1] \div lv.width,
                                    lv.area, <<>>, 0),
             errors |-> <<>>, panic |-> NoPanic]
       ELSE [ok |-> FALSE, state |-> NoLevelState, errors |-> NoPlayer,
             panic |-> NoPanic]

\* A grid of w by h cells without any wall.
open_room(w, h) == room_of(w, h, (0..(w - 1)) \X (0..(h - 1)))

\* The grids lib.rs accepts that check refuses, and one room check accepts.
MonoRooms == {open_room(1, 1), open_room(2, 1), open_room(1, 2), open_room(2, 2),
              open_room(3, 1), open_room(1, 3), RoomCross}

MonoLevels ==
    UNION {
      {place(room, P, B, T) :
         <<P, B, T>> \in
           {c \in (SUBSET free_cells(room)) \X (SUBSET free_cells(room))
                    \X (SUBSET free_cells(room)) :
              /\ Cardinality(c[1]) <= 1
              /\ Cardinality(c[2]) <= MaxPacks
              /\ Cardinality(c[3]) <= MaxPacks
              /\ c[1] \cap c[2] = {}}}
      : room \in MonoRooms}

InitMono ==
    /\ level \in MonoLevels
    /\ phase = "level"
    /\ player_x = 0
    /\ player_y = 0
    /\ area = <<>>
    /\ moves = <<>>
    /\ pushes_count = 0
    /\ errors = <<>>
    /\ panic = NoPanic
    /\ call = Call("none", NoDirection)
    /\ ret = <<>>
    /\ no_fill

\* let state = LevelState::new(&level), in lib.rs
NewMono ==
    /\ phase = "level"
    /\ \E r \in {LevelState_new_mono(level, build) : build \in Builds} :
            /\ phase' = IF r.ok THEN "playing" ELSE "failed"
            /\ set_state(r.state)
            /\ errors' = r.errors
            /\ panic' = r.panic
            /\ call' = Call("new", NoDirection)
            /\ ret' = <<r.ok>>
    /\ UNCHANGED level
    /\ UNCHANGED fill_vars

NextMono == NewMono \/ MakeMove

SpecMono == InitMono /\ [][NextMono]_vars

\* ------------------------------------------------------ the validator alone

CheckRooms == {RoomChambers, RoomDoor, open_room(2, 2)}

\* The rooms with any number of players up to two, boxes and targets.
PlacedLevels ==
    UNION {
      {place(room, P, B, T) :
         <<P, B, T>> \in
           {c \in (SUBSET free_cells(room)) \X (SUBSET free_cells(room))
                    \X (SUBSET free_cells(room)) :
              /\ Cardinality(c[1]) <= 2
              /\ Cardinality(c[2]) <= MaxPacks
              /\ Cardinality(c[3]) <= MaxPacks
              /\ c[1] \cap c[2] = {}}}
      : room \in CheckRooms}

\* The grid of w by h cells with the player on cell p and walls on W.
wall_level(w, h, p, W) ==
    LevelOf(w, h, [i \in 1..(w * h) |-> IF i = p THEN Player
                                        ELSE IF i \in W THEN Wall ELSE Empty])

\* Every grid of three by three cells made of walls, floor and one player,
\* and every grid of four by three with the player on an inner cell.
WallLevels ==
    {wall_level(3, 3, p, W) : p \in 1..9, W \in SUBSET (1..9)}
    \cup {wall_level(4, 3, p, W) : p \in {6, 7}, W \in SUBSET (1..12)}

\* The levels without a cell: Level::empty() and what Level::new accepts
\* with a width or a height of 0.
EmptyLevels ==
    {LevelOf(d[1], d[2], <<>>) : d \in {d \in (0..2) \X (0..2) : d[1] * d[2] = 0}}

CheckLevels == PlacedLevels \cup WallLevels \cup EmptyLevels

InitCheck ==
    /\ level \in CheckLevels
    /\ phase = "level"
    /\ player_x = 0
    /\ player_y = 0
    /\ area = <<>>
    /\ moves = <<>>
    /\ pushes_count = 0
    /\ errors = <<>>
    /\ panic = NoPanic
    /\ call = Call("none", NoDirection)
    /\ ret = <<>>
    /\ no_fill

\* level.check()
Check ==
    /\ phase = "level"
    /\ \E c \in {check(level, build) : build \in Builds} :
            /\ phase' = IF c.abort # "" THEN "aborted" ELSE "checked"
            /\ errors' = c.errors
            /\ panic' = c.abort
            /\ call' = Call("check", NoDirection)
            /\ ret' = <<c.ok>>
    /\ UNCHANGED <<level, player_x, player_y, area, moves, pushes_count>>
    /\ UNCHANGED fill_vars

NextCheck == Check

SpecCheck == InitCheck /\ [][NextCheck]_vars

\* ------------------------------------------------------ the parser alone

\* The strings handed to the parser: every string of at most MaxLen characters.
Strings == UNION {[1..n -> Chars] : n \in 0..MaxLen}

\* The widths and heights handed to the parser.
Dims == 0..3

InitParse ==
    /\ level = Level_empty
    /\ phase = "start"
    /\ player_x = 0
    /\ player_y = 0
    /\ area = <<>>
    /\ moves = <<>>
    /\ pushes_count = 0
    /\ errors = <<>>
    /\ panic = NoPanic
    /\ call = Call("none", NoDirection)
    /\ ret = <<>>
    /\ no_fill

\* Level::from_str(name, width, height, astr)
FromStr ==
    /\ phase = "start"
    /\ \E width \in Dims, height \in Dims, astr \in Strings :
         \E r \in {from_str(width, height, astr)} :
            /\ phase' = IF r.ok THEN "level" ELSE "unparsed"
            /\ level' = r.level
            /\ errors' = IF r.ok THEN <<>> ELSE <<r.error>>
            /\ call' = [op |-> "from_str", dir |-> NoDirection,
                        width |-> width, height |-> height, astr |-> astr]
            /\ ret' = <<r.ok>>
    /\ UNCHANGED <<player_x, player_y, area, moves, pushes_count, panic>>
    /\ UNCHANGED fill_vars

NextParse == FromStr

SpecParse == InitParse /\ [][NextParse]_vars

\* ------------------------------------------------------ the cells alone

\* The grids the cell mutators are called on: every pair of cells.
CellGrids == [1..2 -> Field]

InitCells ==
    /\ level = Level_empty
    /\ phase = "cells"
    /\ player_x = 0
    /\ player_y = 0
    /\ area \in CellGrids
    /\ moves = <<>>
    /\ pushes_count = 0
    /\ errors = <<>>
    /\ panic = NoPanic
    /\ call = Call("none", NoDirection)
    /\ ret = <<>>
    /\ no_fill

\* Each action calls one mutator on one cell: the cell is replaced, or the
\* call panics on a cell the mutator does not accept.  ret holds the cell
\* before and after the call.

\* area[i].set_player()
SetPlayer ==
    /\ phase = "cells"
    /\ \E i \in 1..Len(area) :
         \E after \in {set_player(area[i])} :
            /\ call' = [op |-> "set_player", dir |-> NoDirection, index |-> i]
            /\ IF after = InvalidField
               THEN /\ phase' = "aborted"
                    /\ panic' = InvalidField
                    /\ area' = area
                    /\ ret' = <<>>
               ELSE /\ phase' = "cells"
                    /\ panic' = NoPanic
                    /\ area' = [area EXCEPT ![i] = after]
                    /\ ret' = <<area[i], after>>
    /\ UNCHANGED <<level, player_x, player_y, moves, pushes_count, errors>>
    /\ UNCHANGED fill_vars

\* area[i].unset_player()
UnsetPlayer ==
    /\ phase = "cells"
    /\ \E i \in 1..Len(area) :
         \E after \in {unset_player(area[i])} :
            /\ call' = [op |-> "unset_player", dir |-> NoDirection, index |-> i]
            /\ IF after = InvalidField
               THEN /\ phase' = "aborted"
                    /\ panic' = InvalidField
                    /\ area' = area
                    /\ ret' = <<>>
               ELSE /\ phase' = "cells"
                    /\ panic' = NoPanic
                    /\ area' = [area EXCEPT ![i] = after]
                    /\ ret' = <<area[i], after>>
    /\ UNCHANGED <<level, player_x, player_y, moves, pushes_count, errors>>
    /\ UNCHANGED fill_vars

\* area[i].set_pack()
SetPack ==
    /\ phase = "cells"
    /\ \E i \in 1..Len(area) :
         \E after \in {set_pack(area[i])} :
            /\ call' = [op |-> "set_pack", dir |-> NoDirection, index |-> i]
            /\ IF after = InvalidField
               THEN /\ phase' = "aborted"
                    /\ panic' = InvalidField
                    /\ area' = area
                    /\ ret' = <<>>
               ELSE /\ phase' = "cells"
                    /\ panic' = NoPanic
                    /\ area' = [area EXCEPT ![i] = after]
                    /\ ret' = <<area[i], after>>
    /\ UNCHANGED <<level, player_x, player_y, moves, pushes_count, errors>>
    /\ UNCHANGED fill_vars

\* area[i].unset_pack()
UnsetPack ==
    /\ phase = "cells"
    /\ \E i \in 1..Len(area) :
         \E after \in {unset_pack(area[i])} :
            /\ call' = [op |-> "unset_pack", dir |-> NoDirection, index |-> i]
            /\ IF after = InvalidField
               THEN /\ phase' = "aborted"
                    /\ panic' = InvalidField
                    /\ area' = area
                    /\ ret' = <<>>
               ELSE /\ phase' = "cells"
                    /\ panic' = NoPanic
                    /\ area' = [area EXCEPT ![i] = after]
                    /\ ret' = <<area[i], after>>
    /\ UNCHANGED <<level, player_x, player_y, moves, pushes_count, errors>>
    /\ UNCHANGED fill_vars

NextCells == SetPlayer \/ UnsetPlayer \/ SetPack \/ UnsetPack

SpecCells == InitCells /\ [][NextCells]_vars

\* ------------------------------------------------------ the walk alone

\* The grid of the given size with walls on the cells W and floor elsewhere.
fill_grid(w, h, W) ==
    LevelOf(w, h, [i \in 1..(w * h) |-> IF i \in W THEN Wall ELSE Empty])

\* Every grid of walls and floor up to three by three.
FillLevels ==
    UNION {{fill_grid(d[1], d[2], W) : W \in SUBSET (1..(d[1] * d[2]))}
           : d \in (1..3) \X (1..3)}

\* check_level_by_fill(px, py, errors) is entered: any cell may be the start.
InitFill ==
    /\ level \in FillLevels
    /\ phase = "filling"
    /\ player_x \in 0..(level.width - 1)
    /\ player_y \in 0..(level.height - 1)
    /\ area = <<>>
    /\ moves = <<>>
    /\ pushes_count = 0
    /\ errors = <<>>
    /\ panic = NoPanic
    /\ call = Call("none", NoDirection)
    /\ ret = <<>>
    /\ filled = [i \in 1..(level.width * level.height) |-> FALSE]
    /\ stk = <<StackItem(player_x, player_y, Left)>>
    /\ touch_frames = FALSE
    /\ expanded = [i \in 1..(level.width * level.height) |-> 0]

\* One turn of while stk.len() != 0 { ... }.  The turn expands the cell of
\* the top item when it leaves that item looking Right.
FillTurn ==
    /\ phase = "filling"
    /\ Len(stk) # 0
    /\ \E w \in {fill_turn(level, [filled |-> filled, stk |-> stk,
                                   touch_frames |-> touch_frames])} :
         /\ filled' = w.filled
         /\ stk' = w.stk
         /\ touch_frames' = w.touch_frames
         /\ expanded' =
              LET n == Len(stk)
                  idx == stk[n].y * level.width + stk[n].x + 1
              IN IF stk[n].d = Left /\ Len(w.stk) >= n /\ w.stk[n].d = Right
                 THEN [expanded EXCEPT ![idx] = @ + 1]
                 ELSE expanded
    /\ UNCHANGED <<level, phase, player_x, player_y, area, moves, pushes_count,
                   errors, panic, call, ret>>

\* The loop is left: LevelOpen and the availability errors are pushed.
FillReport ==
    /\ phase = "filling"
    /\ Len(stk) = 0
    /\ phase' = "filled"
    /\ errors' = (IF touch_frames THEN <<LevelOpen>> ELSE <<>>)
                 \o not_available(level, filled, Pack, 0)
                 \o not_available(level, filled, Target, 0)
    /\ call' = Call("check_level_by_fill", NoDirection)
    /\ UNCHANGED <<level, player_x, player_y, area, moves, pushes_count,
                   panic, ret>>
    /\ UNCHANGED fill_vars

NextFill == FillTurn \/ FillReport

\* The loop is sequential code: a turn that can be taken is taken.
SpecFillLive ==
    InitFill /\ [][NextFill]_vars /\ WF_vars(FillTurn) /\ WF_vars(FillReport)

\* ------------------------------------------------------ the terminal game

\* The three results TermGame::start returns; "Err" stands for the
\* io::Error of `?`.
GameResult == {"Solved", "Canceled", "Quit"}

\* The levels the game is played on: the placements in the cross room.
GameLevels ==
    {lv \in Levels : /\ lv.width = RoomCross.width
                     /\ lv.height = RoomCross.height
                     /\ \A i \in 1..Len(lv.area) :
                          (lv.area[i] = Wall) = (RoomCross.area[i] = Wall)}

\* The level; New builds the state and MakeMove may play on it before the
\* game is started on it.
InitGame ==
    /\ level \in GameLevels
    /\ phase = "level"
    /\ player_x = 0
    /\ player_y = 0
    /\ area = <<>>
    /\ moves = <<>>
    /\ pushes_count = 0
    /\ errors = <<>>
    /\ panic = NoPanic
    /\ call = Call("none", NoDirection)
    /\ ret = <<>>
    /\ no_fill

\* TermGame::start up to the key loop: the state is reset and drawn, and
\* the loop is skipped when the level is done already.  What is written to
\* the terminal is not part of the state.
Start ==
    /\ phase = "playing"
    /\ \E r \in {reset(level, state)} :
          /\ set_state(r.state)
          /\ panic' = r.panic
          /\ phase' = IF r.panic # NoPanic THEN "aborted"
                      ELSE IF is_done(r.state) THEN "returned" ELSE "keys"
          /\ ret' = IF r.panic = NoPanic /\ is_done(r.state)
                    THEN <<"Solved">> ELSE <<>>
    /\ call' = Call("start", NoDirection)
    /\ UNCHANGED <<level, errors>>
    /\ UNCHANGED fill_vars

\* Key::Left, Key::Right, Key::Up, Key::Down, then `if is_done() { break; }`
\* and the Ok(Solved) after the loop.
KeyMove ==
    /\ phase = "keys"
    /\ \E dir \in {Left, Right, Up, Down} :
         \E r \in {make_move(level, state, dir, build) : build \in Builds} :
            /\ Len(r.state.moves) <= MaxMoves
            /\ set_state(r.state)
            /\ panic' = r.panic
            /\ phase' = IF r.panic # NoPanic THEN "aborted"
                        ELSE IF is_done(r.state) THEN "returned" ELSE "keys"
            /\ ret' = IF r.panic = NoPanic /\ is_done(r.state)
                      THEN <<"Solved">> ELSE <<>>
            /\ call' = Call("key", dir)
    /\ UNCHANGED <<level, errors>>
    /\ UNCHANGED fill_vars

\* Key::Backspace: TermGame::undo_move, then the same test.
KeyBackspace ==
    /\ phase = "keys"
    /\ \E r \in {undo_move(level, state, build) : build \in Builds} :
            /\ set_state(r.state)
            /\ panic' = r.panic
            /\ phase' = IF r.panic # NoPanic THEN "aborted"
                        ELSE IF is_done(r.state) THEN "returned" ELSE "keys"
            /\ ret' = IF r.panic = NoPanic /\ is_done(r.state)
                      THEN <<"Solved">> ELSE <<>>
            /\ call' = Call("key", "Backspace")
    /\ UNCHANGED <<level, errors>>
    /\ UNCHANGED fill_vars

\* Key::F(1), Key::Char('?') and every key of the `_` arm: the state stays,
\* then the same test.
KeyOther ==
    /\ phase = "keys"
    /\ \E key \in {"F1", "Other"} : call' = Call("key", key)
    /\ phase' = IF is_done(state) THEN "returned" ELSE "keys"
    /\ ret' = IF is_done(state) THEN <<"Solved">> ELSE <<>>
    /\ UNCHANGED <<level, player_x, player_y, area, moves, pushes_count,
                   errors, panic>>
    /\ UNCHANGED fill_vars

\* The arms that return at once: Key::Esc, Key::Char('q'), and `e?` on an
\* event that is an error.
KeyReturn ==
    /\ phase = "keys"
    /\ \E key \in {"Esc", "q", "Error"} :
         /\ call' = Call("key", key)
         /\ ret' = <<CASE key = "Esc" -> "Canceled"
                       [] key = "q" -> "Quit"
                       [] OTHER -> "Err">>
    /\ phase' = "returned"
    /\ UNCHANGED <<level, player_x, player_y, area, moves, pushes_count,
                   errors, panic>>
    /\ UNCHANGED fill_vars

\* stdin().keys() yields None: the for loop ends and Ok(Solved) follows it.
EndOfInput ==
    /\ phase = "keys"
    /\ call' = Call("key", "EndOfInput")
    /\ ret' = <<"Solved">>
    /\ phase' = "returned"
    /\ UNCHANGED <<level, player_x, player_y, area, moves, pushes_count,
                   errors, panic>>
    /\ UNCHANGED fill_vars

NextGame ==
    \/ New \/ MakeMove
    \/ Start \/ KeyMove \/ KeyBackspace \/ KeyOther \/ KeyReturn \/ EndOfInput

SpecGame == InitGame /\ [][NextGame]_vars

\* ------------------------------------------------------ the display

\* a - b on usize together with whether it went below zero.
checked_sub(a, b) == [value |-> wrapping_sub(a, b), underflow |-> a < b]

\* determine_display_and_level_position that never aligns to the end of
\* the level.
determine_never_aligns_end(leveldim, dispdim, centered_levelpos) ==
    IF dispdim >= leveldim
    THEN LET d == checked_sub(dispdim \div 2, leveldim \div 2)
         IN [ret |-> <<d.value, 0, leveldim>>, underflow |-> d.underflow]
    ELSE IF centered_levelpos >= dispdim \div 2
    THEN LET d == checked_sub(centered_levelpos, dispdim \div 2)
         IN [ret |-> <<0, d.value, dispdim>>, underflow |-> d.underflow]
    ELSE [ret |-> <<0, 0, dispdim>>, underflow |-> FALSE]

\* determine_display_and_level_position: (start display position, start
\* level position, displayed size), and whether a subtraction that was
\* evaluated went below zero.
determine_display_and_level_position(leveldim, dispdim, centered_levelpos) ==
    IF dispdim >= leveldim
    THEN LET d == checked_sub(dispdim \div 2, leveldim \div 2)
         IN [ret |-> <<d.value, 0, leveldim>>, underflow |-> d.underflow]
    ELSE IF centered_levelpos >= dispdim \div 2
    THEN LET half == checked_sub(dispdim, dispdim \div 2)
         IN IF centered_levelpos + half.value <= leveldim
            THEN LET d == checked_sub(centered_levelpos, dispdim \div 2)
                 IN [ret |-> <<0, d.value, dispdim>>,
                     underflow |-> half.underflow \/ d.underflow]
            ELSE LET d == checked_sub(leveldim, dispdim)
                 IN [ret |-> <<0, d.value, dispdim>>,
                     underflow |-> half.underflow \/ d.underflow]
    ELSE [ret |-> <<0, 0, dispdim>>, underflow |-> FALSE]

\* The reads of display_level: the indices into area() and the ends of the
\* slices of empty_line (which is dispw long), from the two triples.
display_reads(levelw, h, v) ==
    [area |-> {(dy - v[1] + v[2]) * levelw + h[2] + dx - h[1] :
                  dy \in v[1]..(v[1] + v[3] - 1), dx \in h[1]..(h[1] + h[3] - 1)},
     slices |-> {h[1], h[1] + h[3]}]

\* A level of floor only, of every size up to MaxDim; the cell looked at
\* is any cell of it.
InitDisplay ==
    /\ level \in {LevelOf(w, h, [i \in 1..(w * h) |-> Empty])
                    : w \in 1..MaxDim, h \in 1..MaxDim}
    /\ phase = "display"
    /\ player_x \in 0..(level.width - 1)
    /\ player_y \in 0..(level.height - 1)
    /\ area = level.area
    /\ moves = <<>>
    /\ pushes_count = 0
    /\ errors = <<>>
    /\ panic = NoPanic
    /\ call = Call("none", NoDirection)
    /\ ret = <<>>
    /\ no_fill

\* display_level(cx, cy) on a display of dispw columns and disph rows
\* (disph is term_height - 1).
DisplayLevel ==
    /\ phase = "display"
    /\ \E dispw \in 1..MaxDim, disph \in 1..MaxDim, build \in Builds :
         \E h \in {determine_display_and_level_position(level.width, dispw, player_x)},
            v \in {determine_display_and_level_position(level.height, disph, player_y)} :
           \E reads \in {display_reads(level.width, h.ret, v.ret)} :
             /\ call' = [op |-> "display_level", dir |-> NoDirection,
                         dispw |-> dispw, disph |-> disph]
             /\ ret' = <<h.ret, v.ret>>
             /\ panic' = IF (h.underflow \/ v.underflow) /\ build = "debug"
                         THEN "attempt to subtract with overflow"
                         ELSE IF \E i \in reads.area : ~in_area(area, i)
                         THEN "index out of bounds"
                         ELSE IF \E e \in reads.slices : e > dispw
                         THEN "range end index out of range"
                         ELSE NoPanic
             /\ phase' = IF panic' # NoPanic THEN "aborted" ELSE "displayed"
    /\ UNCHANGED <<level, player_x, player_y, area, moves, pushes_count, errors>>
    /\ UNCHANGED fill_vars

SpecDisplay == InitDisplay /\ [][DisplayLevel]_vars

\* ------------------------------------------------------ the text level set

\* A line is a sequence of characters, a text a sequence of lines.

\* char::is_alphanumeric on the characters the texts are written with.
is_alphanumeric(c) == c \in {"x", "S", "A", "B", "C", "D"}

\* l.starts_with(";")
is_comment(l) == Len(l) > 0 /\ l[1] = ";"

\* str::trim_end and str::trim; the space is the only whitespace in use.
RECURSIVE trim_end(_)
trim_end(l) ==
    IF Len(l) > 0 /\ l[Len(l)] = " " THEN trim_end(SubSeq(l, 1, Len(l) - 1)) ELSE l

RECURSIVE trim(_)
trim(l) == IF Len(l) > 0 /\ l[1] = " " THEN trim(Tail(l)) ELSE trim_end(l)

\* lines.skip_while(..): comments, lines of text and the first empty line
\* are passed over until a line is none of them.
RECURSIVE skip_text(_, _)
skip_text(ls, first_empty_line) ==
    IF Len(ls) = 0 THEN ls
    ELSE LET l == Head(ls)
         IN IF is_comment(l) THEN skip_text(Tail(ls), first_empty_line)
            ELSE IF Len(l) # 0
            THEN (IF is_alphanumeric(l[1])
                  THEN skip_text(Tail(ls), first_empty_line)
                  ELSE ls)
            ELSE IF ~first_empty_line /\ Len(trim(l)) = 0
            THEN skip_text(Tail(ls), TRUE)
            ELSE ls

\* The level-area arm of read_from_text on the rows of one level: the
\* LevelResult it pushes.  The error of the last bad row is the one kept.
text_level(rows, level_name, number) ==
    LET width == CHOOSE w \in {Len(rows[y]) : y \in 1..Len(rows)} :
                     \A y \in 1..Len(rows) : Len(rows[y]) <= w
        bad == {y \in 1..Len(rows) : chars_position(rows[y]) # None}
    IN IF bad = {}
       THEN [ok |-> TRUE, name |-> level_name,
             level |-> LevelOf(width, Len(rows),
                 [i \in 1..(width * Len(rows)) |->
                    LET line == trim_end(rows[((i - 1) \div width) + 1])
                        x == (i - 1) % width
                    IN IF x < Len(line) THEN char_to_field(line[x + 1]) ELSE Empty])]
       ELSE LET y == CHOOSE y \in bad : \A z \in bad : z <= y
            IN [ok |-> FALSE, number |-> number, name |-> level_name,
                error |-> WrongField(chars_position(rows[y])[1], y - 1)]

\* The loop 'a of read_from_text on the lines left: a comment names the
\* level (the one before it, unless the first comment came before the first
\* level) and the comments after it are passed over; other lines up to the
\* next comment are the rows of one level.
RECURSIVE parse_levels(_, _, _, _)
parse_levels(ls, levels, level_name, level_name_first) ==
    IF Len(ls) = 0 THEN levels
    ELSE IF is_comment(Head(ls))
    THEN LET name == trim(Tail(Head(ls)))
             first == level_name_first \/ Len(levels) = 0
             n == CHOOSE n \in 1..Len(ls) :
                    /\ \A i \in 1..n : is_comment(ls[i])
                    /\ n = Len(ls) \/ ~is_comment(ls[n + 1])
         IN parse_levels(SubSeq(ls, n + 1, Len(ls)),
                         IF ~first
                         THEN [levels EXCEPT ![Len(levels)].name = name]
                         ELSE levels,
                         name, first)
    ELSE LET n == CHOOSE n \in 1..Len(ls) :
                    /\ \A i \in 1..n : ~is_comment(ls[i])
                    /\ n = Len(ls) \/ is_comment(ls[n + 1])
         IN parse_levels(SubSeq(ls, n + 1, Len(ls)),
                         Append(levels,
                                text_level(SubSeq(ls, 1, n), level_name, Len(levels))),
                         level_name, level_name_first)

\* LevelSet::read_from_text on a text without read errors.
read_from_text(lines) ==
    [name |-> IF Len(lines) > 0 /\ is_comment(lines[1])
              THEN trim(Tail(lines[1])) ELSE <<>>,
     levels |-> IF Len(lines) = 0 THEN <<>>
                ELSE parse_levels(
                       SelectSeq(skip_text(Tail(lines), FALSE),
                                 LAMBDA l : Len(trim(l)) # 0),
                       <<>>, <<>>, FALSE)]

\* A text is described by where the names stand (before or after the rows
\* of their level), the height of each level, and one cell of one level
\* with the character written there.
TextDocs ==
    {doc \in [names_after : BOOLEAN,
              heights : UNION {[1..n -> 1..2] : n \in 2..MaxLevels},
              bad : (0..(MaxLevels - 1)) \X (0..1) \X (0..1),
              char : {"#", "x", "!"}] :
        /\ doc.bad[1] < Len(doc.heights)
        /\ doc.bad[2] < doc.heights[doc.bad[1] + 1]}

\* The lines of a described text from level k on; from 0 on it is the whole
\* text: the name of the set, one empty line (two when the names stand
\* before the levels), then level by level the name line and the rows.
RECURSIVE text_of(_, _)
text_of(doc, k) ==
    IF k > Len(doc.heights) THEN <<>>
    ELSE IF k = 0
    THEN (IF doc.names_after THEN << <<";", "S">>, <<>> >>
          ELSE << <<";", "S">>, <<>>, <<>> >>) \o text_of(doc, 1)
    ELSE LET name == << <<";", <<"A", "B", "C", "D">>[k]>> >>
             row(y) == IF y = 0 THEN <<"@", "#">> ELSE <<"#", " ">>
             put(y) == IF doc.bad[1] = k - 1 /\ doc.bad[2] = y
                       THEN [row(y) EXCEPT ![doc.bad[3] + 1] = doc.char]
                       ELSE row(y)
             rows == [y \in 1..doc.heights[k] |-> put(y - 1)]
         IN (IF doc.names_after THEN rows \o name ELSE name \o rows)
            \o text_of(doc, k + 1)

InitText ==
    /\ level = Level_empty
    /\ phase = "text"
    /\ player_x = 0
    /\ player_y = 0
    /\ area = <<>>
    /\ moves = <<>>
    /\ pushes_count = 0
    /\ errors = <<>>
    /\ panic = NoPanic
    /\ call = Call("none", NoDirection)
    /\ ret = <<>>
    /\ no_fill

\* LevelSet::read_from_text(reader)
ReadFromText ==
    /\ phase = "text"
    /\ \E doc \in TextDocs :
         /\ call' = [op |-> "read_from_text", dir |-> NoDirection, doc |-> doc]
         /\ ret' = <<read_from_text(text_of(doc, 0))>>
    /\ phase' = "read"
    /\ UNCHANGED <<level, player_x, player_y, area, moves, pushes_count,
                   errors, panic>>
    /\ UNCHANGED fill_vars

SpecText == InitText /\ [][ReadFromText]_vars

\* ------------------------------------------------------------------ properties

playing == phase = "playing"

MoveDirections == Direction \ {NoDirection}

\* The step a direction stands for, on each axis.
dx(dir) == CASE dir \in {Left, PushLeft} -> -1
             [] dir \in {Right, PushRight} -> 1
             [] OTHER -> 0

dy(dir) == CASE dir \in {Up, PushUp} -> -1
             [] dir \in {Down, PushDown} -> 1
             [] OTHER -> 0

plain_of(dir) == CASE dir \in {Left, PushLeft} -> Left
                   [] dir \in {Right, PushRight} -> Right
                   [] dir \in {Up, PushUp} -> Up
                   [] dir \in {Down, PushDown} -> Down

push_of(dir) == CASE dir \in {Left, PushLeft} -> PushLeft
                  [] dir \in {Right, PushRight} -> PushRight
                  [] dir \in {Up, PushUp} -> PushUp
                  [] dir \in {Down, PushDown} -> PushDown

inside(x, y) == x >= 0 /\ x < level.width /\ y >= 0 /\ y < level.height

index_of(x, y) == y * level.width + x + 1

\* The cell (x, y) of a grid, "Outside" beyond the grid's edge.
cell_at(a, x, y) == IF inside(x, y) THEN a[index_of(x, y)] ELSE "Outside"

\* The cells one and two steps from the player along dir, before the call.
dest(dir) == cell_at(area, player_x + dx(dir), player_y + dy(dir))
dest2(dir) == cell_at(area, player_x + 2 * dx(dir), player_y + 2 * dy(dir))

made_move(dir) == playing /\ call' = Call("make_move", dir)

same_but(a, b, changed) ==
    /\ Len(a) = Len(b)
    /\ \A i \in (1..Len(a)) \ changed : a[i] = b[i]

player_cells(a) == {i \in 1..Len(a) : is_player(a[i])}

\* C1: a make_move that returns (true, _) followed at once by undo_move:
\* the undo returns true and the player position, area, move log and push
\* count are again what they were before the move.
C1_RoundTrip ==
    [][(playing /\ call'.op = "make_move" /\ ret'[1])
        => \A build \in Builds :
             undo_move(level,
                       LevelStateOf(player_x', player_y', area', moves',
                                    pushes_count'),
                       build)
             = UndoResult(state, TRUE)]_vars

\* A push has just been made and the undo of it goes through.
C1_Witness ==
    /\ playing
    /\ call.op = "make_move"
    /\ ret = <<TRUE, TRUE>>
    /\ undo_move(level, state, "debug").ret

\* C2: a make_move that returns (false, false) leaves the player position,
\* every cell of the area, the move log and the push count as they were.
C2_RefusedMoveChangesNothing ==
    [][(playing /\ call'.op = "make_move" /\ ret' = <<FALSE, FALSE>>)
        => /\ UNCHANGED <<player_x, player_y, area, moves, pushes_count>>
           /\ phase' = phase]_vars

\* A push to the right was refused because a second box stands behind the box.
C2_Witness ==
    /\ playing
    /\ call \in {Call("make_move", Right), Call("make_move", PushRight)}
    /\ ret = <<FALSE, FALSE>>
    /\ is_pack(dest(Right))
    /\ is_pack(dest2(Right))

\* C3: when the cell one step along the direction's axis is Empty or Target,
\* make_move returns (true, false), the player advances one step, the
\* destination becomes Player (PlayerOnTarget on a target), the origin
\* becomes Empty (Target under PlayerOnTarget), the plain direction is
\* appended to the log, the push count and every other cell stay.
C3_PlainMove ==
    [][\A dir \in MoveDirections :
         (made_move(dir) /\ dest(dir) \in {Empty, Target})
         => LET nx == player_x + dx(dir)
                ny == player_y + dy(dir)
            IN /\ ret' = <<TRUE, FALSE>>
               /\ phase' = "playing"
               /\ player_x' = nx
               /\ player_y' = ny
               /\ area'[index_of(nx, ny)] =
                    (IF dest(dir) = Target THEN PlayerOnTarget ELSE Player)
               /\ area'[index_of(player_x, player_y)] =
                    (IF area[index_of(player_x, player_y)] = PlayerOnTarget
                     THEN Target ELSE Empty)
               /\ moves' = Append(moves, plain_of(dir))
               /\ pushes_count' = pushes_count
               /\ same_but(area, area',
                           {index_of(nx, ny), index_of(player_x, player_y)})]_vars

\* A plain move has taken the player off a target and onto another target.
C3_Witness ==
    /\ playing
    /\ call.op = "make_move"
    /\ ret = <<TRUE, FALSE>>
    /\ area[index_of(player_x, player_y)] = PlayerOnTarget
    /\ \E dir \in {Left, Right, Up, Down} :
         /\ moves[Len(moves)] = dir
         /\ cell_at(area, player_x - dx(dir), player_y - dy(dir)) = Target

\* C4: when the destination holds a box and the cell behind it is inside the
\* grid and neither a Wall nor a box, make_move returns (true, true), the
\* cell behind becomes Pack (PackOnTarget on a target), the destination
\* becomes Player (PlayerOnTarget when the box stood on a target), the origin
\* loses the player and keeps its target flag, the push variant is appended
\* to the log, the push count grows by one and every other cell stays.
C4_Push ==
    [][\A dir \in MoveDirections :
         (/\ made_move(dir)
          /\ is_pack(dest(dir))
          /\ dest2(dir) \notin {"Outside", Wall, Pack, PackOnTarget})
         => LET nx == player_x + dx(dir)
                ny == player_y + dy(dir)
                bx == player_x + 2 * dx(dir)
                by == player_y + 2 * dy(dir)
            IN /\ ret' = <<TRUE, TRUE>>
               /\ phase' = "playing"
               /\ player_x' = nx
               /\ player_y' = ny
               /\ area'[index_of(bx, by)] =
                    (IF dest2(dir) = Target THEN PackOnTarget ELSE Pack)
               /\ area'[index_of(nx, ny)] =
                    (IF dest(dir) = PackOnTarget THEN PlayerOnTarget ELSE Player)
               /\ area'[index_of(player_x, player_y)] =
                    (IF area[index_of(player_x, player_y)] = PlayerOnTarget
                     THEN Target ELSE Empty)
               /\ moves' = Append(moves, push_of(dir))
               /\ pushes_count' = pushes_count + 1
               /\ same_but(area, area',
                           {index_of(bx, by), index_of(nx, ny),
                            index_of(player_x, player_y)})]_vars

\* A box has just been pushed off a target and onto a target.
C4_Witness ==
    /\ playing
    /\ call.op = "make_move"
    /\ ret = <<TRUE, TRUE>>
    /\ area[index_of(player_x, player_y)] = PlayerOnTarget
    /\ \E dir \in {PushLeft, PushRight, PushUp, PushDown} :
         /\ moves[Len(moves)] = dir
         /\ cell_at(area, player_x + dx(dir), player_y + dy(dir)) = PackOnTarget

\* C5: when the destination holds a box, make_move returns (false, false)
\* exactly when the cell behind the box is outside the grid, a Wall or a box,
\* and (true, true) in every other case.
C5_PushBlocked ==
    [][\A dir \in MoveDirections :
         (made_move(dir) /\ is_pack(dest(dir)))
         => /\ ret' \in {<<FALSE, FALSE>>, <<TRUE, TRUE>>}
            /\ ret' = <<FALSE, FALSE>>
                 <=> dest2(dir) \in {"Outside", Wall, Pack, PackOnTarget}
            /\ phase' = "playing"]_vars

\* A push up was refused with a second box behind the box.
C5_Witness ==
    /\ playing
    /\ call \in {Call("make_move", Up), Call("make_move", PushUp)}
    /\ ret = <<FALSE, FALSE>>
    /\ is_pack(dest(Up))
    /\ is_pack(dest2(Up))

\* C6: while a LevelState exists, exactly one cell of its area is
\* player-tagged and it is the cell (player_x, player_y).
C6_OnePlayer ==
    playing => /\ inside(player_x, player_y)
               /\ player_cells(area) = {index_of(player_x, player_y)}

\* The undo of a push has put the player back on a target.
C6_Witness ==
    /\ playing
    /\ call.op = "undo_move"
    /\ ret = <<TRUE>>
    /\ area[index_of(player_x, player_y)] = PlayerOnTarget
    /\ \E dir \in MoveDirections : is_pack(dest(dir))

\* C7: undo_move on an empty log returns false and changes nothing; on a
\* non-empty log it returns true and the log loses exactly its last entry.
C7_UndoReturn ==
    [][(playing /\ call'.op = "undo_move")
        => IF moves = <<>>
           THEN /\ ret' = <<FALSE>>
                /\ UNCHANGED <<player_x, player_y, area, moves, pushes_count>>
                /\ phase' = phase
           ELSE /\ ret' = <<TRUE>>
                /\ moves' = SubSeq(moves, 1, Len(moves) - 1)]_vars

\* undo_move has just returned false.
C7_Witness ==
    /\ playing
    /\ call.op = "undo_move"
    /\ ret = <<FALSE>>
    /\ moves = <<>>

\* The box a push entry at the end of the log tells of: it stands one step
\* beyond the player.
last_push_has_pack ==
    moves # <<>> /\ moves[Len(moves)] \in {PushLeft, PushRight, PushUp, PushDown}
    => is_pack(dest(moves[Len(moves)]))

\* C8: no call aborts: undo_move reaches neither "Unexpected frame" nor
\* "Unknown direction" nor "Invalid field"; the log never holds NoDirection
\* and the cell beyond the player along a push entry holds a box.
C8_UndoNeverPanics ==
    /\ phase # "aborted"
    /\ panic = NoPanic
    /\ playing =>
         /\ \A i \in 1..Len(moves) : moves[i] # NoDirection
         /\ last_push_has_pack
         /\ \A build \in Builds : undo_move(level, state, build).panic = NoPanic

\* An undo went through and the entry now last in the log is a push.
C8_Witness ==
    /\ playing
    /\ call.op = "undo_move"
    /\ ret = <<TRUE>>
    /\ moves # <<>>
    /\ moves[Len(moves)] \in {PushLeft, PushRight, PushUp, PushDown}

\* The state LevelState::new returned for the level.
new_state == LevelState_new(level, "debug").state

\* C9: reset leaves the state LevelState::new returned: empty log, push
\* count 0, the level's grid, the player on the level's player cell.
C9_ResetIsNew ==
    [][(playing /\ call'.op = "reset")
        => /\ phase' = "playing"
           /\ moves' = <<>>
           /\ pushes_count' = 0
           /\ area' = level.area
           /\ Some(index_of(player_x', player_y') - 1) = player_position(level.area)
           /\ LevelStateOf(player_x', player_y', area', moves', pushes_count')
                = new_state]_vars

\* reset has just run on a level that has a box to push.
C9_Witness ==
    /\ playing
    /\ call.op = "reset"
    /\ \E dir \in MoveDirections :
         make_move(level, state, dir, "debug").ret = <<TRUE, TRUE>>

\* undo_move called until it returns false: the state it ends in, the number
\* of calls that returned true, and the panic that cut it short, if any.
RECURSIVE undo_all(_, _, _, _)
undo_all(lv, s, build, n) ==
    LET r == undo_move(lv, s, build)
    IN IF r.panic # NoPanic THEN [state |-> r.state, count |-> n, panic |-> r.panic]
       ELSE IF r.ret THEN undo_all(lv, r.state, build, n + 1)
       ELSE [state |-> r.state, count |-> n, panic |-> NoPanic]

\* C10: undo_move repeated until it returns false succeeds exactly
\* Len(moves) times and ends in the state reset produces.
C10_UndoAllIsReset ==
    playing =>
      \A build \in Builds :
        undo_all(level, state, build, 0)
          = [state |-> reset(level, state).state, count |-> Len(moves),
             panic |-> NoPanic]

\* An undo went through and the log left to undo still holds a push.
C10_Witness ==
    /\ playing
    /\ call.op = "undo_move"
    /\ ret = <<TRUE>>
    /\ Len(moves) >= 2
    /\ pushes_count >= 1
\* ---------------------------------------------------------------- C11

\* The cells of the area holding field f.
cells_with(a, f) == {i \in 1..Len(a) : a[i] = f}

\* C11: is_done() returns true exactly when the area holds no plain Pack, no
\* plain Target and no PlayerOnTarget, and the call changes nothing of the state.
C11_IsDone ==
    [][(playing /\ call' = Call("is_done", NoDirection)) =>
         /\ ret' = <<(/\ cells_with(area, Pack) = {}
                      /\ cells_with(area, Target) = {}
                      /\ cells_with(area, PlayerOnTarget) = {})>>
         /\ UNCHANGED <<level, phase, player_x, player_y, area, moves,
                        pushes_count, errors, panic>>]_vars

\* is_done() answered true after a push put the last box on its target.
C11_Witness ==
    /\ call = Call("is_done", NoDirection)
    /\ ret = <<TRUE>>
    /\ pushes_count >= 1
    /\ cells_with(area, PackOnTarget) # {}

\* ---------------------------------------------------------------- C14

\* The four plain labels.
PlainDirections == {Left, Right, Up, Down}

\* C14: make_move(PushX) and make_move(X) return the same pair and leave the
\* same state, log entry included: the plain label when no box was displaced,
\* the push label when one was.
C14_PushLabelIsPlainLabel ==
    playing =>
      \A d \in PlainDirections : \A build \in Builds :
        \E r \in {make_move(level, state, d, build)} :
          /\ make_move(level, state, push_of(d), build) = r
          /\ (r.panic = NoPanic /\ r.ret = <<TRUE, FALSE>>) =>
                r.state.moves = Append(moves, d)
          /\ (r.panic = NoPanic /\ r.ret = <<TRUE, TRUE>>) =>
                r.state.moves = Append(moves, push_of(d))
          /\ (r.panic = NoPanic /\ r.ret = <<FALSE, FALSE>>) =>
                r.state.moves = moves

\* The program called make_move with a push label and with a plain label:
\* the push label moved without a box and was logged plain, the plain label
\* displaced a box and was logged as a push.
C14_Witness ==
    /\ playing
    /\ Len(moves) >= 2
    /\ \E i \in 1..Len(moves) : moves[i] \in PlainDirections
    /\ \E i \in 1..Len(moves) : moves[i] \notin PlainDirections
    /\ call.op = "make_move"
    /\ \/ call.dir \in PlainDirections /\ ret = <<TRUE, TRUE>>
       \/ call.dir \notin PlainDirections /\ ret = <<TRUE, FALSE>>

\* ---------------------------------------------------------------- C12

\* What the claim promises of a new that succeeded.
fresh_state ==
    /\ area = level.area
    /\ player_position(level.area) = Some(player_y * level.width + player_x)
    /\ moves = <<>>
    /\ pushes_count = 0

\* C12: new succeeds exactly when check returns Ok; on success the state is
\* the level's grid with the player on the level's player cell, an empty log
\* and pushes_count 0; a level that has a player and fails validation gets
\* the error list of check.
C12_NewIffCheck ==
    (call = Call("new", NoDirection) /\ panic = NoPanic) =>
      \A build \in Builds :
        \E c \in {check(level, build)} :
          c.abort = "" =>
            /\ (ret = <<TRUE>>) <=> (c.errors = <<>>)
            /\ (ret = <<TRUE>>) => fresh_state
            /\ (ret = <<FALSE>> /\ count_players(level.area) >= 1) =>
                  errors = c.errors

\* ---------------------------------------------------------------- C13

\* The single step of the player along dir leaves the grid.
leaves_grid(dir) == ~inside(player_x + dx(dir), player_y + dy(dir))

\* C13: whatever the level, as long as it has a player, a make_move whose
\* step would leave the grid returns (false,false), does not abort and
\* changes nothing.
C13_OffGridRefused ==
    playing =>
      \A dir \in MoveDirections : \A build \in Builds :
        leaves_grid(dir) =>
          make_move(level, state, dir, build) = MoveResult(state, FALSE, FALSE)

\* ---------------------------------------------------------------- C15

checked == call = Call("check", NoDirection) /\ panic = NoPanic

error_set == {errors[i] : i \in 1..Len(errors)}

\* The place of an error's category in the order the claim gives.
rank(e) ==
    CASE e[1] \in {"NoPlayer", "TooManyPlayers"} -> 1
      [] e[1] \in {"TooFewPacks", "TooFewTargets"} -> 2
      [] e[1] = "LevelOpen" -> 3
      [] e[1] = "PackNotAvailable" -> 4
      [] e[1] = "TargetNotAvailable" -> 5
      [] e[1] = "Locked2x2Block" -> 6
      [] e[1] = "LockedPackApartWalls" -> 7

\* (x, y) of e comes before (x, y) of f in row-major order.
row_major_before(e, f) == e[3] < f[3] \/ (e[3] = f[3] /\ e[2] < f[2])

\* C15: the list of check is ordered by category (player count, box/target
\* count, LevelOpen, PackNotAvailable, TargetNotAvailable, Locked2x2Block,
\* LockedPackApartWalls), the first three at most once, the entries of each
\* of the other four in row-major order of their cell.
C15_ErrorsOrdered ==
    checked =>
      \A i \in 1..(Len(errors) - 1) :
        \/ rank(errors[i]) < rank(errors[i + 1])
        \/ /\ rank(errors[i]) = rank(errors[i + 1])
           /\ rank(errors[i]) >= 4
           /\ row_major_before(errors[i], errors[i + 1])

\* A list with four categories or more, two entries of one category in
\* different rows and two of one category in the same row.
C15_Witness ==
    /\ checked
    /\ Cardinality({rank(e) : e \in error_set}) >= 4
    /\ \E e, f \in error_set : e[1] = f[1] /\ Len(e) = 3 /\ e[3] # f[3]
    /\ \E e, f \in error_set : e[1] = f[1] /\ Len(e) = 3 /\ e[3] = f[3] /\ e[2] # f[2]

\* ---------------------------------------------------------------- C16

\* What each of the five passes finds on the level, pass by pass.
found ==
    <<players_errors(level), counts_errors(level), fill_errors(level),
      locks_2x2(level, 0), locks_apart_walls(level, 0)>>

\* C16: check does not stop at the first defect: whatever any of the five
\* passes finds is in the one list and nothing else is; the result is Ok
\* exactly when no pass found anything, and an Err never carries an empty list.
C16_AllDefectsReported ==
    checked =>
      \E f \in {found} :
        /\ \A k \in 1..5 : \A i \in 1..Len(f[k]) : f[k][i] \in error_set
        /\ Len(errors) = Len(f[1]) + Len(f[2]) + Len(f[3]) + Len(f[4]) + Len(f[5])
        /\ (ret = <<TRUE>>) <=> (\A k \in 1..5 : f[k] = <<>>)
        /\ (ret = <<FALSE>>) => errors # <<>>
        /\ ret \in {<<TRUE>>, <<FALSE>>}

\* An Err whose list holds what four of the passes found.
C16_Witness ==
    /\ checked
    /\ ret = <<FALSE>>
    /\ \E f \in {found} : Cardinality({k \in 1..5 : f[k] # <<>>}) >= 4

\* ---------------------------------------------------------------- C17

has_player == player_cells(level.area) # {}

\* The first player cell in row-major order, as a 1-based index.
first_player == CHOOSE i \in player_cells(level.area) :
                    \A j \in player_cells(level.area) : i <= j

col(i) == (i - 1) % level.width
row(i) == (i - 1) \div level.width

\* Cells i and j share a side.
adjacent(i, j) ==
    \/ row(i) = row(j) /\ (col(i) = col(j) + 1 \/ col(j) = col(i) + 1)
    \/ col(i) = col(j) /\ (row(i) = row(j) + 1 \/ row(j) = row(i) + 1)

\* The non-Wall cells that share a side with cell i.
free_neighbours(i) ==
    {j \in {i - 1, i + 1, i - level.width, i + level.width} \cap (1..Len(level.area)) :
       level.area[j] # Wall /\ adjacent(i, j)}

\* The least set of cells holding R and every non-Wall cell next to one of its own.
RECURSIVE grow(_)
grow(R) ==
    LET R2 == CHOOSE S \in {R \cup UNION {free_neighbours(i) : i \in R}} : TRUE
    IN IF R2 = R THEN R ELSE grow(R2)

\* The 4-connected region of non-Wall cells that holds the first player cell.
player_region == grow({first_player})

\* C17: the cells the walk from the first player cell marks are exactly the
\* 4-connected region of non-Wall cells holding that cell: boxes and targets
\* are walked through, no Wall and no cell outside the region is marked.
C17_FillIsRegion ==
    (checked /\ has_player) =>
      \E r \in {fill_from(level, col(first_player), row(first_player))} :
        \E R \in {player_region} :
          \A i \in 1..Len(level.area) : r.filled[i] <=> i \in R

\* A region of three cells or more with a box and a target in it, and a
\* free cell outside it.
C17_Witness ==
    /\ checked
    /\ has_player
    /\ \E R \in {player_region} :
         /\ Cardinality(R) >= 3
         /\ \E i \in R : is_pack(level.area[i])
         /\ \E i \in R : level.area[i] = Target
         /\ \E j \in 1..Len(level.area) : level.area[j] # Wall /\ j \notin R

\* ---------------------------------------------------------------- C18

\* Cell i lies on the first or last row or column.
on_frame(i) ==
    \/ col(i) = 0 \/ col(i) = level.width - 1
    \/ row(i) = 0 \/ row(i) = level.height - 1

\* C18: on a level with a player, check reports LevelOpen exactly when the
\* player's region holds a cell of the first or last row or column.
C18_LevelOpenIffFrame ==
    (checked /\ has_player) =>
      \E R \in {player_region} :
        (LevelOpen \in error_set) <=> (\E i \in R : on_frame(i))

\* LevelOpen was reported for a player that does not stand on the frame.
C18_Witness ==
    /\ checked
    /\ has_player
    /\ LevelOpen \in error_set
    /\ ~on_frame(first_player)

\* ---------------------------------------------------------------- C19

\* The cells the list names under the given error.
reported(tag) == {<<e[2], e[3]>> : e \in {e \in error_set : e[1] = tag}}

\* How many entries of the list carry the given error.
count_reported(tag) == Cardinality({k \in 1..Len(errors) : errors[k][1] = tag})

\* The cells outside R that hold one of the given fields.
unmarked(R, fields) ==
    {<<col(i), row(i)>> :
       i \in {i \in 1..Len(level.area) : level.area[i] \in fields /\ i \notin R}}

\* C19 as stated: PackNotAvailable is reported for every cell with a box on
\* it (Pack or PackOnTarget) outside the player's region, and for no other.
C19_EveryBoxCell ==
    (checked /\ has_player) =>
      \E R \in {player_region} :
        reported("PackNotAvailable") = unmarked(R, {Pack, PackOnTarget})

\* C19, amended: PackNotAvailable is reported, once, for every cell equal to
\* Pack outside the player's region and for no other cell; a box that
\* already stands on a target (PackOnTarget) is never reported.
C19_EveryPlainPack ==
    (checked /\ has_player) =>
      \E R \in {player_region} :
        /\ reported("PackNotAvailable") = unmarked(R, {Pack})
        /\ count_reported("PackNotAvailable") = Cardinality(unmarked(R, {Pack}))

\* A plain box and a box on a target, both out of the player's reach: the
\* first is reported.
C19_Witness ==
    /\ checked
    /\ has_player
    /\ reported("PackNotAvailable") # {}
    /\ \E R \in {player_region} : unmarked(R, {PackOnTarget}) # {}

\* ---------------------------------------------------------------- C20

\* C20 as stated: TargetNotAvailable is reported for every cell with a
\* target on it (Target, PackOnTarget or PlayerOnTarget) outside the
\* player's region, and for no other.
C20_EveryTargetCell ==
    (checked /\ has_player) =>
      \E R \in {player_region} :
        reported("TargetNotAvailable")
          = unmarked(R, {Target, PackOnTarget, PlayerOnTarget})

\* C20, amended: TargetNotAvailable is reported, once, for every cell equal
\* to Target outside the player's region and for no other cell; a target
\* under a box or under a second player is never reported.
C20_EveryEmptyTarget ==
    (checked /\ has_player) =>
      \E R \in {player_region} :
        /\ reported("TargetNotAvailable") = unmarked(R, {Target})
        /\ count_reported("TargetNotAvailable") = Cardinality(unmarked(R, {Target}))

\* An empty target and a covered one, both out of the player's reach: the
\* first is reported.
C20_Witness ==
    /\ checked
    /\ has_player
    /\ reported("TargetNotAvailable") # {}
    /\ \E R \in {player_region} : unmarked(R, {PackOnTarget, PlayerOnTarget}) # {}

\* ---------------------------------------------------------------- C21

\* The four cells of the window of area a whose top-left cell is (x, y).
window(a, x, y) ==
    {cell_at(a, x, y), cell_at(a, x + 1, y), cell_at(a, x, y + 1),
     cell_at(a, x + 1, y + 1)}

\* Every cell of the window is a Wall or a box.
blocked(a, x, y) == window(a, x, y) \subseteq {Wall, Pack, PackOnTarget}

\* The top-left cells of the windows that lie in the grid.
windows == (0..(level.width - 2)) \X (0..(level.height - 2))

\* C21: Locked2x2Block(ix,iy) is reported, once, exactly for the windows in
\* the grid whose four cells are each a Wall or a box and that hold a box
\* off target; four walls, or walls and boxes all on targets, are not reported.
C21_Locked2x2Block ==
    checked =>
      \E W \in {{w \in windows : /\ blocked(level.area, w[1], w[2])
                                 /\ Pack \in window(level.area, w[1], w[2])}} :
        /\ reported("Locked2x2Block") = W
        /\ count_reported("Locked2x2Block") = Cardinality(W)

\* One window is reported, and another made of walls and a box on its
\* target is not.
C21_Witness ==
    /\ checked
    /\ reported("Locked2x2Block") # {}
    /\ \E w \in windows :
         /\ blocked(level.area, w[1], w[2])
         /\ PackOnTarget \in window(level.area, w[1], w[2])
         /\ w \notin reported("Locked2x2Block")

\* ---------------------------------------------------------------- C22

\* The cell (x, y) of area a has a Wall above or below it and a Wall left
\* or right of it.
cornered(a, x, y) ==
    /\ (cell_at(a, x, y - 1) = Wall \/ cell_at(a, x, y + 1) = Wall)
    /\ (cell_at(a, x - 1, y) = Wall \/ cell_at(a, x + 1, y) = Wall)

\* The cells off the first and last row and column.
inner_cells == (1..(level.width - 2)) \X (1..(level.height - 2))

\* C22: LockedPackApartWalls(ix,iy) is reported, once, exactly for the inner
\* cells that hold a plain Pack with a Wall above or below and a Wall left
\* or right of it.
C22_LockedPackApartWalls ==
    checked =>
      \E L \in {{c \in inner_cells : /\ cell_at(level.area, c[1], c[2]) = Pack
                                     /\ cornered(level.area, c[1], c[2])}} :
        /\ reported("LockedPackApartWalls") = L
        /\ count_reported("LockedPackApartWalls") = Cardinality(L)

\* One box in a corner is reported; a plain box between two walls facing
\* each other is not.
C22_Witness ==
    /\ checked
    /\ reported("LockedPackApartWalls") # {}
    /\ \E c \in inner_cells :
         /\ cell_at(level.area, c[1], c[2]) = Pack
         /\ cell_at(level.area, c[1], c[2] - 1) = Wall
         /\ c \notin reported("LockedPackApartWalls")

\* ---------------------------------------------------------------- C25

\* C25: NoPlayer is reported exactly when no cell is Player or
\* PlayerOnTarget, TooManyPlayers exactly when two or more are, neither when
\* exactly one is; the player-count error is the first entry of the list.
C25_PlayerCount ==
    checked =>
      \E n \in {Cardinality(cells_with(level.area, Player))
                 + Cardinality(cells_with(level.area, PlayerOnTarget))} :
        /\ (NoPlayer \in error_set) <=> (n = 0)
        /\ (TooManyPlayers \in error_set) <=> (n >= 2)
        /\ (n # 1) => Len(errors) >= 1 /\ errors[1] \in {NoPlayer, TooManyPlayers}
        /\ \A k \in 2..Len(errors) : errors[k] \notin {NoPlayer, TooManyPlayers}

\* Two players, one of them on a target: TooManyPlayers leads a longer list.
C25_Witness ==
    /\ checked
    /\ Len(errors) >= 2
    /\ errors[1] = TooManyPlayers
    /\ cells_with(level.area, PlayerOnTarget) # {}
    /\ cells_with(level.area, Player) # {}

\* ---------------------------------------------------------------- C26

\* The cells holding a box, and the cells holding a target.
box_cells(a) == cells_with(a, Pack) \cup cells_with(a, PackOnTarget)
target_cells(a) ==
    cells_with(a, Target) \cup cells_with(a, PackOnTarget)
      \cup cells_with(a, PlayerOnTarget)

\* C26: with boxes and targets counted over all cells (PackOnTarget in both,
\* PlayerOnTarget as a target), TooFewPacks(targets) is reported exactly when
\* boxes < targets, TooFewTargets(boxes) exactly when targets < boxes, and
\* no count error at all when they are equal.
C26_Counts ==
    checked =>
      \E boxes \in {Cardinality(box_cells(level.area))} :
        \E targets \in {Cardinality(target_cells(level.area))} :
          \E reports \in {{e \in error_set : e[1] \in {"TooFewPacks", "TooFewTargets"}}} :
            /\ (boxes < targets) => reports = {TooFewPacks(targets)}
            /\ (targets < boxes) => reports = {TooFewTargets(boxes)}
            /\ (boxes = targets) => reports = {}
            /\ count_reported("TooFewPacks") + count_reported("TooFewTargets") <= 1

\* Fewer boxes than targets on a level where a box and a player each stand
\* on a target.
C26_Witness ==
    /\ checked
    /\ \E n \in 1..Len(level.area) : TooFewPacks(n) \in error_set
    /\ cells_with(level.area, PackOnTarget) # {}
    /\ cells_with(level.area, PlayerOnTarget) # {}

\* ---------------------------------------------------------------- C27

\* C27: check returns Ok or Err for every level construction accepts, a
\* width or height of 0 included: it never aborts, and on a level without
\* cells it returns an Err that holds NoPlayer.
C27_CheckCompletes ==
    call = Call("check", NoDirection) =>
      /\ panic = NoPanic
      /\ ret \in {<<TRUE>>, <<FALSE>>}
      /\ (Len(level.area) = 0) => (ret = <<FALSE>> /\ NoPlayer \in error_set)

\* ---------------------------------------------------------------- C23

\* The cells of area a that hold a box with a Wall above or below it and a
\* Wall left or right of it.
cornered_boxes(a) ==
    {i \in 1..Len(a) : is_pack(a[i]) /\ cornered(a, col(i), row(i))}

\* The cell the player faces in direction dir, as <<x, y>>.
faced(dir) == <<player_x + dx(dir), player_y + dy(dir)>>

\* C23: a box with a Wall above or below it and a Wall left or right of it
\* is moved by no make_move, whatever the direction and wherever the player
\* stands: after the call the cell holds what it held.
C23_CornerLockSound ==
    [][(playing /\ call'.op = "make_move") =>
         \/ area' = area
         \/ \A i \in cornered_boxes(area) : area'[i] = area[i]]_vars

\* The player has pushed a box and then walked into a cornered box, which
\* did not move.
C23_Witness ==
    /\ playing
    /\ pushes_count >= 1
    /\ call.op = "make_move"
    /\ ret = <<FALSE, FALSE>>
    /\ is_pack(dest(call.dir))
    /\ cornered(area, faced(call.dir)[1], faced(call.dir)[2])

\* ---------------------------------------------------------------- C24

\* The 1-based indices of the four cells of the window at (x, y).
window_cells(x, y) ==
    {index_of(x, y), index_of(x + 1, y), index_of(x, y + 1), index_of(x + 1, y + 1)}

\* The windows of the current area made of walls and boxes only.
blocked_windows == {w \in windows : blocked(area, w[1], w[2])}

\* C24: where the four cells of a window are each a Wall or a box, no
\* make_move changes any of the four; such a window stays as it is through
\* any sequence of moves, so with a box off target in it is_done stays false.
C24_BlockSound ==
    [][(playing /\ call'.op = "make_move") =>
         \/ area' = area
         \/ \A w \in blocked_windows :
              /\ \A i \in window_cells(w[1], w[2]) : area'[i] = area[i]
              /\ Pack \in window(area, w[1], w[2]) =>
                    ~is_done(state) /\ ~is_done(state)']_vars

\* A push has closed a window with a box off target in it, and the player
\* then walked into a box of that window, which did not move.
C24_Witness ==
    /\ playing
    /\ pushes_count >= 1
    /\ call.op = "make_move"
    /\ ret = <<FALSE, FALSE>>
    /\ is_pack(dest(call.dir))
    /\ \E w \in blocked_windows :
         /\ Pack \in window(area, w[1], w[2])
         /\ index_of(faced(call.dir)[1], faced(call.dir)[2])
              \in window_cells(w[1], w[2])

\* ---------------------------------------------------------------- C30

\* C30: after a successful new the player is never on the first or last row
\* or column and never leaves the region it started in, which does not
\* touch the frame; the cells outside the region keep what they held and
\* the region keeps its number of boxes; so no subtraction of make_move goes
\* below zero, a first step never leaves the grid, and behind a box the
\* player faces there is always a cell of the grid.
C30_StaysInside ==
    playing =>
      \E R \in {player_region} :
        /\ index_of(player_x, player_y) \in R
        /\ \A i \in R : ~on_frame(i)
        /\ \A i \in (1..Len(area)) \ R : area[i] = level.area[i]
        /\ Cardinality({i \in R : is_pack(area[i])})
             = Cardinality({i \in R : is_pack(level.area[i])})
        /\ \A dir \in MoveDirections :
             \E m \in {move_setup(level, state, dir)} :
               /\ ~m.underflow
               /\ m.pnext_pos # None
               /\ is_pack(dest(dir)) => m.pnext2_pos # None

\* A box out of the player's reach stands where it stood, and the player
\* has pushed a box against the wall of the frame and walked into it again.
C30_Witness ==
    /\ playing
    /\ pushes_count >= 1
    /\ call.op = "make_move"
    /\ ret = <<FALSE, FALSE>>
    /\ is_pack(dest(call.dir))
    /\ dest2(call.dir) = Wall
    /\ \E R \in {player_region} :
         \E i \in (1..Len(area)) \ R : is_pack(area[i])

\* ---------------------------------------------------------------- C28

parsed == phase \in {"level", "unparsed"} /\ call.op = "from_str"

\* The field each of the seven level characters stands for.
decode ==
    (" " :> Empty) @@ ("#" :> Wall) @@ ("@" :> Player) @@ ("+" :> PlayerOnTarget)
    @@ ("." :> Target) @@ ("$" :> Pack) @@ ("*" :> PackOnTarget)

\* The offsets of the characters of s that are none of the seven.
invalid_offsets(s) == {p \in 0..(Len(s) - 1) : s[p + 1] \notin DOMAIN decode}

\* C28: from_str answers WrongSize(w, h) whenever the length of the string
\* (in bytes, as str::len counts it) differs from w * h, even when the string
\* holds an invalid character; otherwise WrongField(p mod w, p div w) for the
\* first offset p of a character that is none of the seven; otherwise the
\* same Level as Level::new on the cells decoded character by character.
C28_FromStr ==
    parsed =>
      \E w \in {call.width}, h \in {call.height}, s \in {call.astr} :
        \E bad \in {invalid_offsets(s)} :
          IF str_len(s) # w * h
          THEN ret = <<FALSE>> /\ errors = <<WrongSize(w, h)>>
          ELSE IF bad # {}
          THEN \E p \in bad :
                 /\ \A q \in bad : p <= q
                 /\ ret = <<FALSE>>
                 /\ errors = <<WrongField(p % w, p \div w)>>
          ELSE \E n \in {Level_new(w, h, [i \in 1..Len(s) |-> decode[s[i]]])} :
                 /\ n.ok
                 /\ ret = <<TRUE>>
                 /\ errors = <<>>
                 /\ level = n.level

\* A two by two string of the right length whose first invalid character
\* is the last one, in the second row and the second column.
C28_Witness ==
    /\ parsed
    /\ call.width = 2 /\ call.height = 2
    /\ str_len(call.astr) = 4
    /\ errors = <<WrongField(1, 1)>>

\* ---------------------------------------------------------------- C29

Mutators == {"set_player", "unset_player", "set_pack", "unset_pack"}

\* C29: a cell mutator that does not abort leaves the target flag of the
\* cell as it was: is_target of the cell after the call equals is_target of
\* the cell before it, for set_player, unset_player, set_pack and unset_pack.
C29_TargetFlagKept ==
    (call.op \in Mutators /\ panic = NoPanic) =>
        is_target(ret[2]) = is_target(ret[1])

\* ---------------------------------------------------------------- C31

\* C31: no operation moves a wall or a target: in every state of play each
\* cell is a Wall exactly when the cell of the level is one, and is a target
\* exactly when the cell of the level is one.
C31_WallsAndTargetsStay ==
    playing =>
      /\ Len(area) = Len(level.area)
      /\ \A i \in 1..Len(area) :
           /\ (area[i] = Wall) = (level.area[i] = Wall)
           /\ is_target(area[i]) = is_target(level.area[i])

\* A box has been pushed onto a target and the player has left a target.
C31_Witness ==
    /\ playing
    /\ pushes_count >= 1
    /\ \E i \in 1..Len(area) : level.area[i] = Target /\ area[i] = PackOnTarget
    /\ \E i \in 1..Len(area) : level.area[i] = PlayerOnTarget /\ area[i] = Target

\* ---------------------------------------------------------------- C32

\* C32: boxes are conserved: in every state of play the number of box cells
\* is the number of box cells of the level and the number of target cells,
\* so is_done() holds exactly when no plain Pack is left.
C32_BoxesConserved ==
    playing =>
      /\ count_packs(area) = count_packs(level.area)
      /\ count_packs(area) = count_targets(area)
      /\ is_done(state) = (cells_with(area, Pack) = {})

\* Two boxes, one pushed from its target and one pushed onto its target.
C32_Witness ==
    /\ playing
    /\ count_packs(area) = 2
    /\ \E i \in 1..Len(area) : level.area[i] = PackOnTarget /\ ~is_pack(area[i])
    /\ \E i \in 1..Len(area) : level.area[i] = Target /\ area[i] = PackOnTarget
    /\ ~is_done(state)

\* ---------------------------------------------------------------- C33

\* The push variants of Direction.
PushDirections == {PushLeft, PushRight, PushUp, PushDown}

\* The number of push entries of a move log.
pushes_in(log) == Cardinality({k \in 1..Len(log) : log[k] \in PushDirections})

\* C33: in every state of play pushes_count is the number of push entries of
\* the move log; no undo takes it below zero, and it is 0 whenever the log
\* is empty.
C33_PushesCount ==
    /\ playing =>
         /\ pushes_count = pushes_in(moves)
         /\ moves = <<>> => pushes_count = 0
    /\ call.op = "undo_move" =>
         /\ panic # "attempt to subtract with overflow"
         /\ pushes_count <= Len(moves)

\* A push has been undone while another push stays in the log.
C33_Witness ==
    /\ playing
    /\ call.op = "undo_move"
    /\ ret = <<TRUE>>
    /\ pushes_count = 1
    /\ Len(moves) = 2

\* ---------------------------------------------------------------- C34

filling == phase \in {"filling", "filled"}

\* While the walk runs no cell has been expanded twice and the stack holds
\* at most one entry more than the grid has cells.
fill_bounded ==
    filling =>
      /\ \A i \in 1..Len(level.area) : expanded[i] <= 1
      /\ \A i \in 1..Len(level.area) : level.area[i] = Wall => expanded[i] = 0
      /\ Len(stk) <= Len(level.area) + 1

\* The walk is over with every stack item popped, and has marked what the
\* whole-loop operator marks.
fill_over ==
    /\ phase = "filled"
    /\ Len(stk) = 0
    /\ \E r \in {fill_from(level, player_x, player_y)} :
         filled = r.filled /\ touch_frames = r.touch_frames

\* C34: the walk terminates on every grid and from every start cell: no
\* cell is expanded more than once, the stack never holds more entries than
\* the grid has cells plus one, and every stack item is popped in the end.
C34_FillTerminates == []fill_bounded /\ <>[]fill_over

\* Every cell of a grid of at least four cells is on the stack, and one
\* more entry on top of them.
C34_Witness ==
    /\ phase = "filling"
    /\ Len(level.area) >= 4
    /\ Len(stk) = Len(level.area) + 1
    /\ \A i \in 1..Len(level.area) : expanded[i] = 1

\* ---------------------------------------------------------------- C35

\* The level has one player, no box and no target, and the region of the
\* player does not reach the frame.
bare_closed_level ==
    /\ count_players(level.area) = 1
    /\ count_packs(level.area) = 0
    /\ count_targets(level.area) = 0
    /\ \A i \in player_region : ~on_frame(i)

\* C35: check never reports NoPacksAndTargets: new accepts a level with one
\* player, no box and no target in a closed region, and is_done() holds for
\* the state it returns before any move.
C35_NoPacksIsDone ==
    /\ NoPacksAndTargets \notin error_set
    /\ (call.op = "new" /\ bare_closed_level) =>
         /\ phase = "playing"
         /\ ret = <<TRUE>>
         /\ errors = <<>>
         /\ moves = <<>>
         /\ is_done(state)

\* new has just accepted a level without boxes and targets.
C35_Witness ==
    /\ call.op = "new"
    /\ phase = "playing"
    /\ bare_closed_level
    /\ is_done(state)

\* ---------------------------------------------------------------- C36

\* C36: for a level without a player new returns the list of the single
\* entry NoPlayer, whatever else is wrong with the level.
C36_NoPlayerAlone ==
    (call.op = "new" /\ count_players(level.area) = 0) =>
        /\ phase = "failed"
        /\ ret = <<FALSE>>
        /\ errors = <<NoPlayer>>

\* new has refused a level without a player that check would also fault
\* for its counts.
C36_Witness ==
    /\ call.op = "new"
    /\ phase = "failed"
    /\ count_players(level.area) = 0
    /\ counts_errors(level) # <<>>

\* ---------------------------------------------------------------- C37

\* C37: start resets the state first; it returns Solved only if is_done()
\* holds for the state at the moment it returns, Canceled only after an
\* Escape key and Quit only after a 'q' key, whatever the keys are and also
\* when the input ends before the level is solved.
C37_StartResult ==
    /\ call = Call("start", NoDirection) => state = new_state
    /\ phase = "returned" =>
         /\ ret = <<"Solved">> => is_done(state)
         /\ ret = <<"Canceled">> => call = Call("key", "Esc")
         /\ ret = <<"Quit">> => call = Call("key", "q")

\* ---------------------------------------------------------------- C39

\* The triple (start_disp, start_level, size) fits a display side and a
\* level side.
fits(t, dispdim, leveldim) ==
    /\ t[1] + t[3] <= dispdim
    /\ t[2] + t[3] <= leveldim

\* C39: for every level side and display side of at least 1 and every
\* centre inside the level, start_disp + size <= dispdim and
\* start_level + size <= leveldim, no subtraction goes below zero, and
\* display_level reads neither outside the area nor outside the empty line.
C39_DisplayFits ==
    call.op = "display_level" =>
      /\ panic = NoPanic
      /\ fits(ret[1], call.dispw, level.width)
      /\ fits(ret[2], call.disph, level.height)

\* The level is wider and higher than the display and the centre is the
\* last cell: both triples are aligned to the end of the level.
C39_Witness ==
    /\ call.op = "display_level"
    /\ call.dispw < level.width /\ call.disph < level.height
    /\ call.dispw >= 2 /\ call.disph >= 2
    /\ player_x = level.width - 1 /\ player_y = level.height - 1
    /\ ret = << <<0, level.width - call.dispw, call.dispw>>,
                <<0, level.height - call.disph, call.disph>> >>

\* ---------------------------------------------------------------- C38

\* The levels read from the text of the call with the character in
\* question replaced by a wall.
clean_levels ==
    read_from_text(text_of([call.doc EXCEPT !.char = "#"], 0)).levels

\* C38: a level with one invalid character becomes Err(LevelParseError) at
\* its place in the list, with the zero-based index of the level, the name
\* of the level and WrongField(column, row within the level); the levels
\* before and after it are read as if the level were valid.
C38_BadLevelAlone ==
    (call.op = "read_from_text" /\ call.doc.char # "#") =>
      \E clean \in {clean_levels}, k \in {call.doc.bad[1] + 1} :
        /\ Len(ret[1].levels) = Len(clean)
        /\ ret[1].levels[k] =
             [ok |-> FALSE, number |-> k - 1, name |-> clean[k].name,
              error |-> WrongField(call.doc.bad[3], call.doc.bad[2])]
        /\ \A j \in (1..Len(clean)) \ {k} : ret[1].levels[j] = clean[j]

====
